---- MODULE Spec2Model ----
(***************************************************************************)
(* A model of deepstreampy_twisted: the Record state machine (record.py),  *)
(* the RecordHandler registry/router (record.py) and the SingleNotifier    *)
(* (utils.py).  Every method is an operator from the object's state and    *)
(* its inputs to a result [r, out, exc]: the new state, the outputs it     *)
(* produced in order (messages handed to the connection, subscriber and    *)
(* write callbacks invoked, events emitted) and the exception it raised.   *)
(***************************************************************************)
EXTENDS Integers, Sequences, FiniteSets, TLC

\* ------------------------------------------------------------------ bounds
MaxVersion == 2     \* versions of inbound messages and the cap on local writes
MaxQueued == 1      \* calls queued before the record is ready
MaxPending == 1     \* merge-strategy invocations not yet resolved
MaxCalls == 3       \* has / get_record / get_list calls per behaviour
MaxEntities == 3    \* Record and List objects constructed per behaviour
MaxDeadlines == 3   \* AckTimeoutRegistry.add calls per behaviour
MaxLen == 3         \* entries of a List

\* ------------------------------------------------------- values and documents
NoVersion == -1             \* self._version = None
NoCb == 0                   \* callback=None
ALL_EVENT == "ALL_EVENT"
NoPath == "None"            \* path=None
Absent == "absent"          \* a key the document does not hold (reads as None)
NoVal == "noval"

Keys == {"a", "b"}
\* A number and a JSON array: the value kinds message_builder.typed tells apart.
Vals == {"n1", "lst"}
Docs == [Keys -> Vals \cup {Absent}]
EmptyDoc == [k \in Keys |-> Absent]
Callbacks == {1}

NoConfig == "noconfig"
WriteSuccess == "writeSuccess"

RemoteWins == "remote_wins"
Custom == "custom"
NoStrategy == "none"

\* ------------------------------------------------------------------ outputs
Ev(t, act, name, ver, path, val, doc, cfg) ==
    [t |-> t, act |-> act, name |-> name, ver |-> ver, path |-> path,
     val |-> val, doc |-> doc, cfg |-> cfg]

\* connection.send_message(RECORD, action, payload)
SendEv(act, name, ver, path, val, doc, cfg) ==
    Ev("send", act, name, ver, path, val, doc, cfg)
\* a subscriber callback of `path` invoked with a value (val) or a document (doc)
FireEv(path, val, doc) == Ev("fire", "", "", NoVersion, path, val, doc, NoConfig)
\* self.emit(event, ...) on the Record itself
EmitEv(event, detail) == Ev("emit", event, detail, NoVersion, NoPath, NoVal, EmptyDoc, NoConfig)
\* a write callback invoked with an error text ("" for None)
CbEv(cb, err) == Ev("cb", err, "", cb, NoPath, NoVal, EmptyDoc, NoConfig)
\* the merge strategy invoked with the remote data and version
MergeEv(ver, doc) == Ev("merge", "", "", ver, NoPath, NoVal, doc, NoConfig)

Res(r, out, exc) == [r |-> r, out |-> out, exc |-> exc]
NoExc == ""
\* the outputs `o` of what ran before, then the result `res` of what ran next
Then(o, res) == Res(res.r, o \o res.out, res.exc)

\* ---------------------------------------------------------------- jsonpath
\* jsonpath.get(data, path, deep_copy): the document, or the value at path
\* (None for a key the document does not hold).
JsonGet(data, path) == data[path]

\* jsonpath.set(data, path, value, deep_copy): whole-document replace when path
\* is absent, else the document with `value` at `path`.
JsonSet(data, path, val, doc) ==
    IF path = NoPath THEN doc ELSE [data EXCEPT ![path] = val]

\* ---------------------------------------------------------- message_builder
\* typed(value): the typed token of a value; lists are not handled and raise.
Typed(val) ==
    CASE val = "n1" -> "N1"
      [] val = Absent -> "L"
      [] OTHER -> "ValueError"

\* ------------------------------------------------------------ message_parser
\* message_parser.convert_typed of the tokens a HAS response or a write
\* acknowledgement carries: T and F are booleans, L is None (written ""), S
\* prefixes a string.
ConvertTyped(token) ==
    CASE token = "T" -> "True"
      [] token = "F" -> "False"
      [] token = "L" -> ""
      [] token = "Serr" -> "err"
      [] OTHER -> token

\* ------------------------------------------------------------------ Record
PathOrder == <<"a", "b">>

\* Record.__init__: the fields of a new Record.  `pending_resolves` are the
\* partial(self._on_record_recovered, ...) closures a merge strategy holds and
\* has not called yet; `data_shared` tells that a caller holds a reference to
\* the very object self._data is bound to; `resubscribe` tells that the ResubscribeNotifier still
\* listens to the client and `is_reconnecting` is its flag; `subs` are the keys of self._emitter that have a
\* listener; `listeners` are the entry events of the object itself that have
\* a listener; a timer is "none" (never armed), "armed", "cancelled" or "fired".
NewRecord(name, kind, strategy) ==
    [name |-> name, kind |-> kind, usages |-> 0,
     has_provider |-> FALSE, is_ready |-> FALSE, is_destroyed |-> FALSE,
     data |-> EmptyDoc, data_shared |-> FALSE, version |-> NoVersion,
     old_value |-> [set |-> FALSE, v |-> EmptyDoc],
     old_path_values |-> [set |-> FALSE, paths |-> {}, m |-> EmptyDoc],
     queued |-> <<>>,
     write_callbacks |-> [v \in 1..(MaxVersion + 1) |-> NoCb],
     merge_strategy |-> strategy,
     listeners |-> {},
     pending_resolves |-> <<>>,
     subs |-> {},
     resubscribe |-> TRUE, is_reconnecting |-> FALSE,
     read_ack_timeout |-> "armed", read_timeout |-> "armed",
     delete_ack_timeout |-> "none", discard_timeout |-> "none",
     read_future |-> "pending"]

\* Record._send_read
SendRead(r) == <<SendEv("CREATEORREAD", r.name, NoVersion, NoPath, NoVal, EmptyDoc, NoConfig)>>

\* self._write_callbacks.get(version, None)
GetCallback(r, version) ==
    IF version \in DOMAIN r.write_callbacks THEN r.write_callbacks[version] ELSE NoCb

\* Record._set_up_callback
SetUpCallbackAtCurrent(r, current_version, callback) ==
    [r EXCEPT !.write_callbacks[IF current_version < 1 THEN 1 ELSE current_version] = callback]
SetUpCallback(r, current_version, callback) ==
    LET new_version == (IF current_version = NoVersion THEN 0 ELSE current_version) + 1
    IN [r EXCEPT !.write_callbacks[new_version] = callback]

\* Record._send_update: bump the version, then hand UPDATE or PATCH to the
\* connection.  typed(data) raises for a value it cannot serialize; a destroyed
\* record has no connection any more.
SendUpdateNoBump(r, path, val, doc, config) ==
    IF path = NoPath
    THEN Res(r, <<SendEv("UPDATE", r.name, r.version, NoPath, NoVal, doc, config)>>, NoExc)
    ELSE Res(r, <<SendEv("PATCH", r.name, r.version, path, Typed(val), EmptyDoc, config)>>, NoExc)
SendUpdate(r, path, val, doc, config) ==
    LET r1 == [r EXCEPT !.version = @ + 1]
    IN IF path = NoPath
       THEN IF r1.is_destroyed THEN Res(r1, <<>>, "AttributeError")
            ELSE Res(r1, <<SendEv("UPDATE", r1.name, r1.version, NoPath, NoVal, doc, config)>>, NoExc)
       ELSE IF Typed(val) = "ValueError" THEN Res(r1, <<>>, "ValueError")
            ELSE IF r1.is_destroyed THEN Res(r1, <<>>, "AttributeError")
            ELSE Res(r1, <<SendEv("PATCH", r1.name, r1.version, path, Typed(val), EmptyDoc, config)>>, NoExc)

\* The subscriber callbacks Record._apply_change invokes for old_data -> new_data.
ApplyChangeFires(subs, old_data, new_data) ==
    (IF ALL_EVENT \in subs /\ new_data # old_data
     THEN <<FireEv(ALL_EVENT, NoVal, new_data)>> ELSE <<>>)
    \o [i \in 1..Len(SelectSeq(PathOrder,
            LAMBDA p: p \in subs /\ JsonGet(new_data, p) # JsonGet(old_data, p)))
        |-> LET p == SelectSeq(PathOrder,
                      LAMBDA q: q \in subs /\ JsonGet(new_data, q) # JsonGet(old_data, q))[i]
            IN FireEv(p, JsonGet(new_data, p), EmptyDoc)]

\* Record._apply_change
ApplyChangeAllOnly(r, new_data) ==
    IF r.is_destroyed THEN Res(r, <<>>, NoExc)
    ELSE Res([r EXCEPT !.data = new_data],
             ApplyChangeFires(r.subs \cap {ALL_EVENT}, r.data, new_data), NoExc)
ApplyChangeAlways(r, new_data) ==
    IF r.is_destroyed THEN Res(r, <<>>, NoExc)
    ELSE Res([r EXCEPT !.data = new_data],
             (IF ALL_EVENT \in r.subs THEN <<FireEv(ALL_EVENT, NoVal, new_data)>> ELSE <<>>)
             \o ApplyChangeFires(r.subs \ {ALL_EVENT}, r.data, new_data), NoExc)
\* (the ALL subscribers are handed new_data, the object self._data is bound to now)
ApplyChange(r, new_data) ==
    IF r.is_destroyed THEN Res(r, <<>>, NoExc)
    ELSE Res([r EXCEPT !.data = new_data,
                       !.data_shared = ALL_EVENT \in r.subs /\ new_data # r.data],
             ApplyChangeFires(r.subs, r.data, new_data), NoExc)

\* Record._begin_change: snapshot the subscribed paths (and the document when
\* there is an ALL subscriber).
BeginChange(r) ==
    IF r.subs = {} THEN r
    ELSE [r EXCEPT !.old_path_values =
                       [set |-> TRUE, paths |-> r.subs \ {ALL_EVENT}, m |-> r.data],
                   !.old_value = IF ALL_EVENT \in r.subs
                                 THEN [set |-> TRUE, v |-> r.data] ELSE @]

\* Record._complete_change
CompleteChange(r) ==
    LET allFire == IF ALL_EVENT \in r.subs
                      /\ (~r.old_value.set \/ r.old_value.v # r.data)
                   THEN <<FireEv(ALL_EVENT, NoVal, r.data)>> ELSE <<>>
        r1 == [r EXCEPT !.old_value = [set |-> FALSE, v |-> EmptyDoc]]
    IN IF ~r1.old_path_values.set \/ r1.old_path_values.paths = {}
       THEN Res(r1, allFire, NoExc)
       ELSE Res([r1 EXCEPT !.old_path_values = [set |-> FALSE, paths |-> {}, m |-> EmptyDoc]],
                allFire \o ApplyChangeFires(r1.old_path_values.paths,
                                            r1.old_path_values.m, r1.data),
                NoExc)

\* Record._check_destroyed: the error a destroyed record emits for a call.
CheckDestroyed(r, method_name) == <<EmitEv("error", method_name)>>

\* Record.set(data, path, callback) on connection state cs.
\* a = [path, val, doc, cb]: val is the data of a call with a path, doc the
\* data of a whole-document call.
RecordSetNoEqualCheck(r, cs, a) ==
    LET new_value == JsonSet(r.data, a.path, a.val, a.doc)
        su == SendUpdate(r, a.path, a.val, a.doc, NoConfig)
        ac == ApplyChange(su.r, new_value)
    IN IF r.is_destroyed \/ ~r.is_ready THEN Res(r, <<>>, NoExc)
       ELSE Res(ac.r, su.out \o ac.out, NoExc)
RecordSet(r, cs, a) ==
    IF r.is_destroyed THEN Res(r, CheckDestroyed(r, "set"), NoExc)
    ELSE IF ~r.is_ready
    THEN Res([r EXCEPT !.queued = Append(@, [a EXCEPT !.cb = NoCb])], <<>>, NoExc)
    ELSE LET new_value == JsonSet(r.data, a.path, a.val, a.doc)
             config == IF a.cb # NoCb THEN WriteSuccess ELSE NoConfig
             r1 == IF a.cb # NoCb THEN SetUpCallback(r, r.version, a.cb) ELSE r
             o1 == IF a.cb # NoCb /\ cs \in {"CLOSED", "RECONNECTING"}
                   THEN <<CbEv(a.cb, "Connection error")>> ELSE <<>>
             su == SendUpdate(r1, a.path, a.val, a.doc, config)
             ac == ApplyChange(su.r, new_value)
         IN IF new_value = r.data THEN Res(r, <<>>, NoExc)
            ELSE IF su.exc # NoExc THEN Res(su.r, o1 \o su.out, su.exc)
            ELSE Res(ac.r, o1 \o su.out \o ac.out, NoExc)

\* -------------------------------------------------------------------- List
\* A List is a Record whose document is a JSON array of record names.  A
\* document that is an array is [entries |-> <<...>>]; a new List holds the
\* dict {} like every Record.  Indices are those of the code: they start at 0.
Entries == {"x", "y"}
NoIndex == -1               \* index=None
ENTRY_ADDED_EVENT == "ENTRY_ADDED_EVENT"
ENTRY_REMOVED_EVENT == "ENTRY_REMOVED_EVENT"
ENTRY_MOVED_EVENT == "ENTRY_MOVED_EVENT"
EntryEvents == {ENTRY_ADDED_EVENT, ENTRY_REMOVED_EVENT, ENTRY_MOVED_EVENT}

ListVal(entries) == [entries |-> entries]
IsList(data) == DOMAIN data = {"entries"}

\* self.emit(event, entry, n) on the List
EntryEv(event, entry, n) == Ev("emit", event, entry, n, NoPath, NoVal, EmptyDoc, NoConfig)

\* super(List, self).get(): the array, or the keys of a dict when iterated
RawEntries(data) ==
    IF IsList(data) THEN data.entries
    ELSE SelectSeq(PathOrder, LAMBDA k: data[k] # Absent)

\* List.get: the entries, [] while the document is not an array
ListGet(l) == IF IsList(l.data) THEN l.data.entries ELSE <<>>

\* List._get_structure: structure[entry], the indices of entry in order
Occ(entries, entry) ==
    SelectSeq([i \in 1..Len(entries) |-> i - 1], LAMBDA n: entries[n + 1] = entry)
\* the keys of the structure in insertion order (first occurrence)
StructureKeys(entries) ==
    LET first == SelectSeq([i \in 1..Len(entries) |-> i],
                           LAMBDA i: \A j \in 1..(i - 1): entries[j] # entries[i])
    IN [k \in 1..Len(first) |-> entries[first[k]]]
Range(s) == {s[i] : i \in 1..Len(s)}

RECURSIVE Concat(_)
Concat(ss) == IF ss = <<>> THEN <<>> ELSE Head(ss) \o Concat(Tail(ss))

\* List._after_change, the loop over `before`
RemovedEvents(before, after, entry) ==
    IF Occ(after, entry) = <<>> \/ Len(Occ(after, entry)) < Len(Occ(before, entry))
    THEN LET ns == SelectSeq(Occ(before, entry), LAMBDA n: n \notin Range(Occ(after, entry)))
         IN [i \in 1..Len(ns) |-> EntryEv(ENTRY_REMOVED_EVENT, entry, ns[i])]
    ELSE <<>>

\* List._after_change, the loop over `after`
AddedMovedEvents(before, after, entry) ==
    IF Occ(before, entry) = <<>>
    THEN [i \in 1..Len(Occ(after, entry)) |-> EntryEv(ENTRY_ADDED_EVENT, entry, Occ(after, entry)[i])]
    ELSE IF Occ(before, entry) = Occ(after, entry) THEN <<>>
    ELSE IF Len(Occ(before, entry)) # Len(Occ(after, entry))
    THEN LET ns == SelectSeq(Occ(after, entry), LAMBDA n: n \notin Range(Occ(before, entry)))
         IN [i \in 1..Len(ns) |-> EntryEv(ENTRY_ADDED_EVENT, entry, ns[i])]
    ELSE [i \in 1..Len(Occ(after, entry)) |-> EntryEv(ENTRY_MOVED_EVENT, entry, Occ(after, entry)[i])]

\* List._before_change and List._after_change around a change from the
\* entries `before` to the entries `after`; `listeners` are the entry events
\* that had a listener when the change began.
ListAfterChange(listeners, before, after) ==
    IF listeners \cap EntryEvents = {} THEN <<>>
    ELSE (IF ENTRY_REMOVED_EVENT \in listeners
          THEN Concat([k \in 1..Len(StructureKeys(before)) |->
                        RemovedEvents(before, after, StructureKeys(before)[k])])
          ELSE <<>>)
         \o
         (IF listeners \cap {ENTRY_ADDED_EVENT, ENTRY_MOVED_EVENT} # {}
          THEN Concat([k \in 1..Len(StructureKeys(after)) |->
                        AddedMovedEvents(before, after, StructureKeys(after)[k])])
          ELSE <<>>)

\* the entry events of a change that ran to its end
WithEntryEvents(l, res) ==
    IF res.exc # NoExc THEN res
    ELSE Res(res.r,
             res.out \o ListAfterChange(l.listeners, RawEntries(l.data), RawEntries(res.r.data)),
             NoExc)

\* isinstance(entry, str_types): NotAString stands for an entry such as 1
NotAString == "int:1"
IsString(entry) == entry # NotAString

\* List.set(entries): a = [doc], the new array (or what was passed for it)
ListSet(l, cs, a) ==
    IF ~IsList(a.doc) THEN Res(l, <<>>, "ValueError")
    ELSE IF \E i \in 1..Len(a.doc.entries) : ~IsString(a.doc.entries[i])
    THEN Res(l, <<>>, "ValueError")
    ELSE IF ~l.is_ready
    THEN Res([l EXCEPT !.queued = Append(@, [a EXCEPT !.kind = "set"])], <<>>, NoExc)
    ELSE WithEntryEvents(l, RecordSet(l, cs, [a EXCEPT !.kind = "set", !.path = NoPath, !.cb = NoCb]))

\* what List.add_entry, remove_entry and remove_at do before they compute the
\* new array: queue the call when the list is not ready
QueueUnlessReady(l, a) ==
    IF l.is_ready THEN l ELSE [l EXCEPT !.queued = Append(@, a)]

\* entries.insert(index, entry) / entries.append(entry)
Inserted(entries, entry, index) ==
    IF index = NoIndex \/ index >= Len(entries) THEN Append(entries, entry)
    ELSE SubSeq(entries, 1, index) \o <<entry>> \o SubSeq(entries, index + 1, Len(entries))
\* del entries[index]
Deleted(entries, index) ==
    SubSeq(entries, 1, index) \o SubSeq(entries, index + 2, Len(entries))
\* entries.index(entry), for an entry the array holds
IndexOf(entries, entry) == Occ(entries, entry)[1]

\* List.add_entry(entry, index): a = [val, ver], the entry and the index
ListAddEntry(l, cs, a) ==
    ListSet(QueueUnlessReady(l, a), cs,
            [a EXCEPT !.doc = ListVal(Inserted(ListGet(l), a.val, a.ver))])

\* List.remove_entry(entry): a = [val]
ListRemoveEntry(l, cs, a) ==
    IF ~IsList(l.data) THEN Res(QueueUnlessReady(l, a), <<>>, "AttributeError")
    ELSE IF Occ(l.data.entries, a.val) = <<>>
    THEN Res(QueueUnlessReady(l, a), <<>>, "ValueError")
    ELSE ListSet(QueueUnlessReady(l, a), cs,
                 [a EXCEPT !.doc = ListVal(Deleted(l.data.entries, IndexOf(l.data.entries, a.val)))])

\* List.remove_at(index): a = [ver]; a list that is not ready looks up
\* self.remove_entry_at, which List does not define
ListRemoveAt(l, cs, a) ==
    IF ~l.is_ready THEN Res(l, <<>>, "AttributeError")
    ELSE IF ~IsList(l.data) THEN Res(l, <<>>, "KeyError")
    ELSE IF a.ver >= Len(l.data.entries) THEN Res(l, <<>>, "IndexError")
    ELSE ListSet(l, cs, [a EXCEPT !.doc = ListVal(Deleted(l.data.entries, a.ver))])

\* a queued partial(self.<method>, ...) called: the method of the object's class
Invoke(r, cs, call) ==
    CASE r.kind = "list" /\ call.kind = "set" -> ListSet(r, cs, call)
      [] call.kind = "add_entry" -> ListAddEntry(r, cs, call)
      [] call.kind = "remove_entry" -> ListRemoveEntry(r, cs, call)
      [] OTHER -> RecordSet(r, cs, call)

\* for call in self._queued_method_calls: call()  -- stops at the first call
\* that raises.
RECURSIVE ReplayQueued(_, _, _)
ReplayRest(first, cs, calls) ==
    IF first.exc # NoExc THEN first
    ELSE Then(first.out, ReplayQueued(first.r, cs, calls))
ReplayQueued(r, cs, calls) ==
    IF calls = <<>> THEN Res(r, <<>>, NoExc)
    ELSE ReplayRest(Invoke(r, cs, Head(calls)), cs, Tail(calls))

\* Record._set_ready
Replayed(rp) ==
    IF rp.exc # NoExc THEN rp
    ELSE Res([rp.r EXCEPT !.queued = <<>>], rp.out \o <<EmitEv("ready", "")>>, NoExc)
SetReady(r, cs) == Replayed(ReplayQueued([r EXCEPT !.is_ready = TRUE], cs, r.queued))

\* Record._on_read
ReadStored(cc, cs) == Then(cc.out, SetReady(cc.r, cs))
OnRead(r, cs, m) ==
    ReadStored(CompleteChange([BeginChange(r) EXCEPT !.version = m.ver, !.data = m.doc,
                                                    !.data_shared = FALSE]), cs)

\* Record._on_record_recovered(remote_version, remote_data, message, error, data):
\* m is the message that caused the recovery; m.verstr tells that
\* remote_version was passed as the string of the message (VERSION_EXISTS)
\* and not as an int (UPDATE, READ).
OnRecordRecoveredKeepVersion(r, m, error, data) ==
    IF error THEN Res(r, <<EmitEv("error", "VERSION_EXISTS")>>, NoExc)
    ELSE ApplyChange(r, data)
OnRecordRecovered(r, m, error, data) ==
    IF error THEN Res(r, <<EmitEv("error", "VERSION_EXISTS")>>, NoExc)
    ELSE
    LET old_version == r.version
        r1 == [r EXCEPT !.version = m.ver]
        new_value == JsonSet(r1.data, NoPath, NoVal, data)
    IN IF data = m.doc
       THEN LET ac == ApplyChange(r1, data)
                callback == GetCallback(ac.r, ac.r.version)
            IN IF callback = NoCb THEN ac
               ELSE IF m.verstr
               THEN Res(ac.r, ac.out \o <<CbEv(callback, "")>>, "KeyError")
               ELSE Res([ac.r EXCEPT !.write_callbacks[m.ver] = NoCb],
                        ac.out \o <<CbEv(callback, "")>>, NoExc)
       ELSE LET moved == m.cfg = WriteSuccess
                r2 == IF moved
                      THEN SetUpCallback([r1 EXCEPT !.write_callbacks[old_version] = NoCb],
                                         r1.version, GetCallback(r1, old_version))
                      ELSE r1
                su == SendUpdate(r2, NoPath, NoVal, data, m.cfg)
                ac == ApplyChange(su.r, new_value)
            IN IF moved /\ GetCallback(r1, old_version) = NoCb
               THEN Res(r1, <<>>, "KeyError")
               ELSE IF su.exc # NoExc THEN su
               ELSE Res(ac.r, su.out \o ac.out, NoExc)

\* Record._recover_record: remote_wins resolves at once with the remote data;
\* a custom strategy is handed the resolver and calls it later.
RecoverRecordAlwaysMerges(r, m) ==
    IF r.merge_strategy = Custom
    THEN Res([r EXCEPT !.pending_resolves =
                           Append(@, [m EXCEPT !.kind = "closure", !.action = ""])],
             <<MergeEv(m.ver, m.doc)>>, NoExc)
    ELSE OnRecordRecovered(r, m, FALSE, m.doc)
RecoverRecord(r, m) ==
    CASE r.merge_strategy = RemoteWins -> OnRecordRecovered(r, m, FALSE, m.doc)
      [] r.merge_strategy = Custom ->
            Res([r EXCEPT !.pending_resolves =
                              Append(@, [m EXCEPT !.kind = "closure", !.action = ""])],
                <<MergeEv(m.ver, m.doc)>>, NoExc)
      [] OTHER -> Res(r, <<EmitEv("error", "VERSION_EXISTS")>>, NoExc)

\* Record._apply_update for READ (after the first), UPDATE and PATCH.
ApplyUpdateNoVersionCheck(r, m) ==
    LET r1 == BeginChange(r)
        r2 == [r1 EXCEPT !.version = m.ver,
                         !.data = IF m.action = "PATCH"
                                  THEN JsonSet(@, m.path, m.val, EmptyDoc) ELSE m.doc,
                         !.data_shared = @ /\ m.action = "PATCH"]
    IN CompleteChange(r2)
ApplyUpdate(r, m) ==
    IF r.version # NoVersion /\ r.version + 1 # m.ver
    THEN IF m.action = "PATCH"
         THEN IF r.is_destroyed THEN Res(r, <<>>, "AttributeError")
              ELSE Res(r, <<SendEv("SNAPSHOT", r.name, NoVersion, NoPath, NoVal,
                                   EmptyDoc, NoConfig)>>, NoExc)
         ELSE RecoverRecord(r, m)
    ELSE LET r1 == BeginChange(r)
             r2 == [r1 EXCEPT !.version = m.ver,
                              !.data = IF m.action = "PATCH"
                                       THEN JsonSet(@, m.path, m.val, EmptyDoc)
                                       ELSE m.doc,
                              !.data_shared = @ /\ m.action = "PATCH"]
         IN CompleteChange(r2)

\* List._apply_update: PATCH is refused, a payload that is not an array is
\* replaced by the empty array.
ListApplyUpdate(l, m) ==
    IF m.action = "PATCH" THEN Res(l, <<>>, "ValueError")
    ELSE WithEntryEvents(l, ApplyUpdate(l, IF IsList(m.doc) THEN m
                                           ELSE [m EXCEPT !.doc = ListVal(<<>>)]))

\* self._apply_update(message): the method of the object's class
ApplyUpdateOf(r, m) ==
    IF r.kind = "list" THEN ListApplyUpdate(r, m) ELSE ApplyUpdate(r, m)

\* Record._clear_timeouts
CancelTimer(t) == IF t = "armed" THEN "cancelled" ELSE t
ClearTimeouts(r) ==
    [r EXCEPT !.read_ack_timeout = CancelTimer(@),
              !.discard_timeout = CancelTimer(@),
              !.delete_ack_timeout = CancelTimer(@)]

\* Record._on_timeout, run by the timer stored in the field `timer`.  A
\* destroyed record has no client any more to remove a timeout from.
Timers == {"read_ack_timeout", "read_timeout", "discard_timeout", "delete_ack_timeout"}
TimeoutType(timer) ==
    CASE timer = "read_timeout" -> "RESPONSE_TIMEOUT"
      [] timer = "delete_ack_timeout" -> "DELETE_TIMEOUT"
      [] OTHER -> "ACK_TIMEOUT"
OnTimeout(r, timer) ==
    IF r.is_destroyed THEN Res([r EXCEPT ![timer] = "fired"], <<>>, "AttributeError")
    ELSE Res(ClearTimeouts([r EXCEPT ![timer] = "fired"]),
             <<EmitEv("error", TimeoutType(timer))>>, NoExc)

\* Record._destroy
Destroy(r) ==
    [ClearTimeouts(r) EXCEPT !.subs = {}, !.resubscribe = FALSE,
                             !.is_destroyed = TRUE, !.is_ready = FALSE]

\* Record._process_ack_message
ProcessAckMessage(r, m) ==
    CASE m.ack = "SUBSCRIBE" ->
            Res([r EXCEPT !.read_ack_timeout = CancelTimer(@)], <<>>, NoExc)
      [] m.ack = "DELETE" -> Res(Destroy(r), <<EmitEv("delete", "")>>, NoExc)
      [] m.ack = "UNSUBSCRIBE" -> Res(Destroy(r), <<EmitEv("discard", "")>>, NoExc)
      [] OTHER -> Res(r, <<>>, NoExc)

\* Record._on_message for WRITE_ACKNOWLEDGEMENT: the stored callback of every
\* listed version is called with the decoded payload and removed.
RECURSIVE WriteAcknowledgement(_, _, _)
WriteAcknowledgement(r, versions, token) ==
    IF versions = <<>> THEN Res(r, <<>>, NoExc)
    ELSE IF GetCallback(r, Head(versions)) = NoCb
    THEN WriteAcknowledgement(r, Tail(versions), token)
    ELSE LET rest == WriteAcknowledgement([r EXCEPT !.write_callbacks[Head(versions)] = NoCb],
                                          Tail(versions), token)
         IN Res(rest.r, <<CbEv(GetCallback(r, Head(versions)), ConvertTyped(token))>> \o rest.out,
                rest.exc)

\* Record._on_message
OnMessage(r, cs, m) ==
    CASE m.action = "READ" ->
            IF r.version = NoVersion
            THEN OnRead([r EXCEPT !.read_timeout = CancelTimer(@)], cs, m)
            ELSE ApplyUpdateOf(r, m)
      [] m.action = "ACK" -> ProcessAckMessage(r, m)
      [] m.action \in {"UPDATE", "PATCH"} -> ApplyUpdateOf(r, m)
      [] m.action = "WRITE_ACKNOWLEDGEMENT" -> WriteAcknowledgement(r, m.vers, m.val)
      [] m.action = "VERSION_EXISTS" -> RecoverRecord(r, m)
      [] m.action = "MESSAGE_DENIED" -> Res(ClearTimeouts(r), <<>>, NoExc)
      [] m.action = "SUBSCRIPTION_HAS_PROVIDER" ->
            Res([r EXCEPT !.has_provider = m.flag],
                <<EmitEv("hasProviderChanged", "")>>, NoExc)
      [] OTHER -> Res(r, <<>>, NoExc)

\* Record.get(path): a snapshot of the document or of the value at path
ReturnEv(val, doc) == Ev("return", "", "", NoVersion, NoPath, val, doc, NoConfig)
Get(r, path) ==
    IF path = NoPath THEN Res(r, <<ReturnEv(NoVal, r.data)>>, NoExc)
    ELSE Res(r, <<ReturnEv(JsonGet(r.data, path), EmptyDoc)>>, NoExc)

\* Record.subscribe(callback, path, trigger_now): with trigger_now, a callback
\* for a path is called with a copy of the value, a callback for the whole
\* record with self._data itself.
Subscribe(r, path, trigger_now) ==
    IF r.is_destroyed THEN Res(r, CheckDestroyed(r, "subscribe"), NoExc)
    ELSE Res([r EXCEPT !.subs = @ \cup {path},
                       !.data_shared = @ \/ (trigger_now /\ r.is_ready /\ path = ALL_EVENT)],
             IF trigger_now /\ r.is_ready
             THEN IF path = ALL_EVENT THEN <<FireEv(path, NoVal, r.data)>>
                  ELSE <<FireEv(path, JsonGet(r.data, path), EmptyDoc)>>
             ELSE <<>>,
             NoExc)

\* Record.unsubscribe(callback, path)
Unsubscribe(r, path) ==
    IF r.is_destroyed THEN Res(r, CheckDestroyed(r, "unsubscribe"), NoExc)
    ELSE Res([r EXCEPT !.subs = @ \ {path}], <<>>, NoExc)

\* ResubscribeNotifier._handle_connection_state_changes of the notifier a
\* Record owns (its resubscribe action is Record._send_read); destroy() has
\* removed the listener of a destroyed record.
HandleConnectionStateChangesAlwaysResends(r, state) ==
    IF ~r.resubscribe THEN Res(r, <<>>, NoExc)
    ELSE IF state = "RECONNECTING" /\ ~r.is_reconnecting
    THEN Res([r EXCEPT !.is_reconnecting = TRUE], <<>>, NoExc)
    ELSE IF state = "OPEN"
    THEN Res([r EXCEPT !.is_reconnecting = FALSE], SendRead(r), NoExc)
    ELSE Res(r, <<>>, NoExc)
HandleConnectionStateChanges(r, state) ==
    IF ~r.resubscribe THEN Res(r, <<>>, NoExc)
    ELSE IF state = "RECONNECTING" /\ ~r.is_reconnecting
    THEN Res([r EXCEPT !.is_reconnecting = TRUE], <<>>, NoExc)
    ELSE IF state = "OPEN" /\ r.is_reconnecting
    THEN Res([r EXCEPT !.is_reconnecting = FALSE], SendRead(r), NoExc)
    ELSE Res(r, <<>>, NoExc)

\* ------------------------------------------------------- inputs of one step
\* One shape for every call and inbound message: kind is the operation, the
\* other fields its arguments (those it does not use hold their defaults);
\* pv is the record's version when the step began; name is the record name of
\* a RecordHandler call or message and ent the entity the call returned or
\* acted on; vers are the versions a WRITE_ACKNOWLEDGEMENT lists.  For a resolve(error, data)
\* step, doc is the resolved data, and ver, rdoc and cfg are the remote
\* version, remote data and config of the conflict being resolved.
In(kind, action, ack, ver, verstr, path, val, doc, cfg, cb, error, flag) ==
    [kind |-> kind, action |-> action, ack |-> ack, ver |-> ver, verstr |-> verstr,
     path |-> path, val |-> val, doc |-> doc, cfg |-> cfg, cb |-> cb,
     error |-> error, flag |-> flag, pv |-> NoVersion, rdoc |-> EmptyDoc,
     name |-> "", ent |-> 0, vers |-> <<>>]
NoIn == In("init", "", "", NoVersion, FALSE, NoPath, NoVal, EmptyDoc, NoConfig, NoCb, FALSE, FALSE)

\* record.set(doc) / record.set(val, path), with or without a callback
SetArgs(docs, keys, vals, cbs) ==
    {[NoIn EXCEPT !.kind = "set", !.doc = d, !.cb = c] : d \in docs, c \in cbs}
    \cup {[NoIn EXCEPT !.kind = "set", !.path = p, !.val = v, !.cb = c] :
            p \in keys, v \in vals, c \in cbs}

Versions == 0..MaxVersion

\* The decoded messages RecordHandler.handle passes to Record._on_message.
ReadMsgs(vers, docs) ==
    {[NoIn EXCEPT !.kind = "recv", !.action = "READ", !.ver = v, !.doc = d] :
        v \in vers, d \in docs}
UpdateMsgs(vers, docs) ==
    {[NoIn EXCEPT !.kind = "recv", !.action = "UPDATE", !.ver = v, !.doc = d] :
        v \in vers, d \in docs}
PatchMsgs(vers, keys, vals) ==
    {[NoIn EXCEPT !.kind = "recv", !.action = "PATCH", !.ver = v, !.path = p, !.val = x] :
        v \in vers, p \in keys, x \in vals}
\* R|E|VERSION_EXISTS|name|version|data(|config)
VersionExistsMsgs(vers, docs, cfgs) ==
    {[NoIn EXCEPT !.kind = "recv", !.action = "VERSION_EXISTS", !.ver = v,
                  !.verstr = TRUE, !.doc = d, !.cfg = c] :
        v \in vers, d \in docs, c \in cfgs}
AckMsgs(acks) ==
    {[NoIn EXCEPT !.kind = "recv", !.action = "ACK", !.ack = a] : a \in acks}
\* R|WA|name|[versions]|payload
WriteAckMsgs(lists, tokens) ==
    {[NoIn EXCEPT !.kind = "recv", !.action = "WRITE_ACKNOWLEDGEMENT",
                  !.vers = vs, !.val = t] : vs \in lists, t \in tokens}

\* ------------------------------------------------------------ SingleNotifier
Names == {"x", "y"}

\* a has or snapshot callback invoked with (error, data): error is "" for None,
\* data a converted value (val) or a document (doc)
ResponseEv(cb, error, val, doc) == Ev("cb", error, "", cb, NoPath, val, doc, NoConfig)
\* self._client._on_error(RECORD, event, name)
ClientErrorEv(event, name) == Ev("client_error", event, name, NoVersion, NoPath, NoVal, EmptyDoc, NoConfig)

\* SingleNotifier.__init__.  requests is self._requests: per name the entries
\* in request order (a name with no entry is not in the dict), the timeout of
\* an entry being the handle of its timer; timeouts are the timers the
\* notifier has handed to the io_loop, indexed by handle, each with its state
\* ("armed", "cancelled" or "fired") and the name its callback is bound to;
\* is_reconnecting is the flag of its ResubscribeNotifier.
NewNotifier ==
    [requests |-> [n \in Names |-> <<>>], timeouts |-> <<>>, is_reconnecting |-> FALSE]

\* SingleNotifier.request(name, callback)
SingleNotifierRequestAlwaysSends(sn, action, name, callback) ==
    Res([sn EXCEPT !.timeouts = Append(@, [state |-> "armed", name |-> name]),
                   !.requests[name] = Append(@, [timeout |-> Len(sn.timeouts) + 1,
                                                 callback |-> callback])],
        <<SendEv(action, name, NoVersion, NoPath, NoVal, EmptyDoc, NoConfig)>>, NoExc)
SingleNotifierRequest(sn, action, name, callback) ==
    Res([sn EXCEPT !.timeouts = Append(@, [state |-> "armed", name |-> name]),
                   !.requests[name] = Append(@, [timeout |-> Len(sn.timeouts) + 1,
                                                 callback |-> callback])],
        IF sn.requests[name] = <<>>
        THEN <<SendEv(action, name, NoVersion, NoPath, NoVal, EmptyDoc, NoConfig)>>
        ELSE <<>>,
        NoExc)

\* SingleNotifier.receive(name, error, data)
SingleNotifierReceiveKeepsTimeouts(sn, name, error, val, doc) ==
    IF sn.requests[name] = <<>> THEN Res(sn, <<>>, "KeyError")
    ELSE Res([sn EXCEPT !.requests[name] = <<>>],
             [i \in 1..Len(sn.requests[name]) |->
                 ResponseEv(sn.requests[name][i].callback, error, val, doc)],
             NoExc)
SingleNotifierReceive(sn, name, error, val, doc) ==
    IF sn.requests[name] = <<>> THEN Res(sn, <<>>, "KeyError")
    ELSE Res([sn EXCEPT !.requests[name] = <<>>,
                        !.timeouts = [t \in DOMAIN sn.timeouts |->
                            IF \E i \in 1..Len(sn.requests[name]) :
                                   sn.requests[name][i].timeout = t
                            THEN [sn.timeouts[t] EXCEPT !.state = CancelTimer(@)]
                            ELSE sn.timeouts[t]]],
             [i \in 1..Len(sn.requests[name]) |->
                 ResponseEv(sn.requests[name][i].callback, error, val, doc)],
             NoExc)

\* SingleNotifier._on_response_timeout, run by the timer with handle t
OnResponseTimeout(sn, t) ==
    Res([sn EXCEPT !.timeouts[t].state = "fired"],
        <<ClientErrorEv("RESPONSE_TIMEOUT", sn.timeouts[t].name)>>, NoExc)

\* SingleNotifier._resend_requests: one message per name in self._requests,
\* whose payload is self._requests[name], the list of the entries of the name
EntriesPayload(name) == "entries of " \o name
NamesInOrder == <<"x", "y">>
ResendRequests(sn, action) ==
    [i \in 1..Len(SelectSeq(NamesInOrder, LAMBDA n : sn.requests[n] # <<>>)) |->
        SendEv(action,
               EntriesPayload(SelectSeq(NamesInOrder, LAMBDA n : sn.requests[n] # <<>>)[i]),
               NoVersion, NoPath, NoVal, EmptyDoc, NoConfig)]

\* ResubscribeNotifier._handle_connection_state_changes of the notifier a
\* SingleNotifier owns (its resubscribe action is _resend_requests)
SingleNotifierStateChanged(sn, action, state) ==
    IF state = "RECONNECTING" /\ ~sn.is_reconnecting
    THEN Res([sn EXCEPT !.is_reconnecting = TRUE], <<>>, NoExc)
    ELSE IF state = "OPEN" /\ sn.is_reconnecting
    THEN Res([sn EXCEPT !.is_reconnecting = FALSE], ResendRequests(sn, action), NoExc)
    ELSE Res(sn, <<>>, NoExc)

\* -------------------------------------------------------- AckTimeoutRegistry
NoAckAction == "None"       \* action=None
AckActions == {NoAckAction, "S"}
\* (action or "") + name
UniqueName(action, name) == (IF action = NoAckAction THEN "" ELSE action) \o name
AckKeys == {UniqueName(a, n) : a \in AckActions, n \in Names}
NoDeadline == "None"        \* the value add() stores in self._register
NotRegistered == "absent"   \* a key self._register does not hold

\* AckTimeoutRegistry.__init__.  register is self._register; timers are the
\* calls add() scheduled on the io_loop, each with the arguments bound to its
\* _on_timeout.
NewAckRegistry == [register |-> [k \in AckKeys |-> NotRegistered], timers |-> <<>>]

\* dict.get(key, default)
RegisterGet(reg, key, default) ==
    IF reg.register[key] = NotRegistered THEN default ELSE reg.register[key]

\* AckTimeoutRegistry.clear(message), message['data'] being [action, name]
\* and message.get('raw', '') being `raw`
AckClear(reg, action, name, raw) ==
    LET timeout == RegisterGet(reg, UniqueName(action, name),
                               RegisterGet(reg, name, NoDeadline))
    IN IF timeout # NoDeadline
       THEN Res([reg EXCEPT !.timers[timeout].state = CancelTimer(@)], <<>>, NoExc)
       ELSE Res(reg, <<ClientErrorEv("UNSOLICITED_MESSAGE", raw)>>, NoExc)

\* AckTimeoutRegistry.remove(name, action)
AckRemove(reg, name, action) ==
    IF reg.register[UniqueName(action, name)] # NotRegistered
    THEN AckClear(reg, action, name, "")
    ELSE Res(reg, <<>>, NoExc)

\* AckTimeoutRegistry.add(name, action)
AckAdd(reg, name, action) ==
    LET removed == AckRemove(reg, name, action)
    IN Then(removed.out,
            Res([removed.r EXCEPT
                    !.timers = Append(@, [state |-> "armed",
                                          unique_name |-> UniqueName(action, name),
                                          name |-> name]),
                    !.register[UniqueName(action, name)] = NoDeadline],
                <<>>, NoExc))

\* AckTimeoutRegistry._on_timeout(unique_name, name), run by timer t
AckOnTimeout(reg, t) ==
    LET fired == [reg EXCEPT !.timers[t].state = "fired"]
    IN IF reg.register[reg.timers[t].unique_name] = NotRegistered
       THEN Res(fired, <<>>, "KeyError")
       ELSE Res([fired EXCEPT !.register[reg.timers[t].unique_name] = NotRegistered],
                <<ClientErrorEv("ACK_TIMEOUT",
                                "No ACK message received in time for " \o reg.timers[t].name),
                  EmitEv("timeout", reg.timers[t].name)>>, NoExc)

\* ------------------------------------------------------------- RecordHandler
NoEnt == 0      \* name not in self._records / self._lists

\* A Record or List object on the heap: r its fields, hooks the number of times
\* the handler has attached its error/destroyPending/delete/discard listeners
\* to it, on_ready the callbacks when_ready has attached with once('ready'):
\* the ready_callback of a discard or delete call and the future it closes over.
NewEntity(r) == [r |-> r, hooks |-> 0, on_ready |-> <<>>]

\* RecordHandler.__init__.  ents is the heap (an entity's id is its index);
\* destroy_emitter holds per name the _on_message listeners of
\* 'destroy_ack_' + name; listeners maps a pattern to its Listener (an index
\* into listener_objs, the Listener objects constructed so far, or NoEnt for a
\* pattern not in the dict); results are the coroutines get_record and get_list
\* have started; has_sent counts the HAS messages sent for a name since its
\* last response; futures are the futures discard and delete calls returned:
\* "pending", "sent" (set_result is the done callback of a send in flight) or
\* "done".
NewHandler ==
    [ents |-> <<>>,
     records |-> [n \in Names |-> NoEnt],
     lists |-> [n \in Names |-> NoEnt],
     has_registry |-> NewNotifier,
     snapshot_registry |-> NewNotifier,
     destroy_emitter |-> [n \in Names |-> <<>>],
     listeners |-> [n \in Names |-> NoEnt],
     listener_objs |-> <<>>,
     results |-> <<>>,
     futures |-> <<>>,
     ncalls |-> 0,
     has_sent |-> [n \in Names |-> 0]]

\* RecordHandler._remove_record
RemoveRecord(h, record_name) ==
    IF h.records[record_name] # NoEnt THEN [h EXCEPT !.records[record_name] = NoEnt]
    ELSE IF h.lists[record_name] # NoEnt THEN [h EXCEPT !.lists[record_name] = NoEnt]
    ELSE h

\* RecordHandler._on_destroy_pending
OnDestroyPending(h, record_name) ==
    IF h.records[record_name] = NoEnt THEN Res(h, <<>>, "KeyError")
    ELSE Res(RemoveRecord([h EXCEPT !.destroy_emitter[record_name] =
                                        Append(@, h.records[record_name])],
                          record_name),
             <<>>, NoExc)

\* The handler's listeners of one event of an entity, invoked once per
\* attachment; an exception leaves the emit.
RECURSIVE RunHooks(_, _, _, _)
RunHooks(h, record_name, event, n) ==
    IF n = 0 THEN Res(h, <<>>, NoExc)
    ELSE LET first == IF event = "destroyPending" THEN OnDestroyPending(h, record_name)
                      ELSE Res(RemoveRecord(h, record_name), <<>>, NoExc)
         IN IF first.exc # NoExc THEN first
            ELSE RunHooks(first.r, record_name, event, n - 1)

\* ready_callback of Record.discard and of Record.delete, run on entity id;
\* `future` is the future the call returned.
ReadyCallback(h, id, what, future) ==
    LET name == h.ents[id].r.name
        h1 == IF what = "discard" THEN [h EXCEPT !.ents[id].r.usages = @ - 1] ELSE h
        hk == RunHooks(h1, name, "destroyPending", h1.ents[id].hooks)
    IN IF what = "discard" /\ h1.ents[id].r.usages > 0 THEN Res(h1, <<>>, NoExc)
       ELSE IF hk.exc # NoExc THEN Res(hk.r, <<EmitEv("destroyPending", "")>>, hk.exc)
       ELSE IF what = "discard"
       THEN Res([hk.r EXCEPT !.ents[id].r.discard_timeout = "armed",
                             !.futures[future] = "sent"],
                <<EmitEv("destroyPending", ""),
                  SendEv("UNSUBSCRIBE", name, NoVersion, NoPath, NoVal, EmptyDoc, NoConfig)>>,
                NoExc)
       ELSE Res([hk.r EXCEPT !.ents[id].r.delete_ack_timeout = "armed",
                             !.futures[future] = "sent"],
                <<EmitEv("destroyPending", ""),
                  SendEv("DELETE", name, NoVersion, NoPath, NoVal, EmptyDoc, NoConfig)>>,
                NoExc)

\* Record.discard / Record.delete on entity id (when_ready runs the callback
\* now or attaches it to 'ready')
WhenReady(h, id, what, future) ==
    IF h.ents[id].r.is_ready THEN ReadyCallback(h, id, what, future)
    ELSE Res([h EXCEPT !.ents[id].on_ready = Append(@, [what |-> what, future |-> future])],
             <<>>, NoExc)
DiscardOrDelete(h, id, what) ==
    IF h.ents[id].r.is_destroyed THEN Res(h, CheckDestroyed(h.ents[id].r, what), NoExc)
    ELSE WhenReady([h EXCEPT !.futures = Append(@, "pending")], id, what, Len(h.futures) + 1)

\* the method run emitted `event`
Emitted(o, event) == \E i \in 1..Len(o) : o[i] = EmitEv(event, "")

\* self.emit('ready'): the once('ready') callbacks in the order attached; an
\* exception leaves the emit.
RECURSIVE RunWaiters(_, _, _)
RunWaitersRest(first, id, waiters) ==
    IF first.exc # NoExc THEN first
    ELSE Then(first.out, RunWaiters(first.r, id, waiters))
RunWaiters(h, id, waiters) ==
    IF waiters = <<>> THEN Res(h, <<>>, NoExc)
    ELSE RunWaitersRest(ReadyCallback(h, id, Head(waiters).what, Head(waiters).future),
                        id, Tail(waiters))

\* The handler's and when_ready's listeners of the events an entity emitted
\* while it handled a message (res): 'delete' and 'discard' run
\* _remove_record, 'ready' runs the callbacks when_ready attached.
AfterOnMessage(h, id, res) ==
    IF res.exc # NoExc THEN Res(h, res.out, res.exc)
    ELSE IF Emitted(res.out, "delete") \/ Emitted(res.out, "discard")
    THEN Res(RunHooks(h, h.ents[id].r.name, "remove", h.ents[id].hooks).r, res.out, NoExc)
    ELSE IF Emitted(res.out, "ready")
    THEN Then(res.out, RunWaiters([h EXCEPT !.ents[id].on_ready = <<>>], id,
                                     h.ents[id].on_ready))
    ELSE Res(h, res.out, NoExc)

\* entity._on_message(message)
Stored(h, id, res) == AfterOnMessage([h EXCEPT !.ents[id].r = res.r], id, res)
EntityOnMessage(h, id, cs, m) == Stored(h, id, OnMessage(h.ents[id].r, cs, m))

\* self._destroy_emitter.emit('destroy_ack_' + name, message): each listener
\* in ids was attached with once; with then_registered, the message goes on to
\* the entity registered under the name after that (handle, for a DELETE ack).
RECURSIVE Deliver(_, _, _, _, _)
DeliverRest(first, ids, cs, m, then_registered) ==
    IF first.exc # NoExc THEN first
    ELSE Then(first.out, Deliver(first.r, ids, cs, m, then_registered))
Deliver(h, ids, cs, m, then_registered) ==
    IF ids # <<>>
    THEN DeliverRest(EntityOnMessage(h, Head(ids), cs, m), Tail(ids), cs, m, then_registered)
    ELSE IF then_registered /\ h.records[m.name] # NoEnt
    THEN Deliver(h, <<h.records[m.name]>>, cs, m, FALSE)
    ELSE Res(h, <<>>, NoExc)

\* ------------------------------------------------------------------ Listener
\* Listener.__init__: arms the ack timeout and sends LISTEN
NewListener(pattern, callback) ==
    [pattern |-> pattern, callback |-> callback, destroy_pending |-> FALSE,
     ack_timeout |-> "armed", resubscribe |-> TRUE]

\* the listener callback invoked with (name, is_found)
ListenCbEv(cb, name, is_found) ==
    Ev("cb", IF is_found THEN "found" ELSE "removed", name, cb, NoPath, NoVal, EmptyDoc, NoConfig)

\* Listener.send_destroy
ListenerSendDestroy(l) ==
    Res([l EXCEPT !.destroy_pending = TRUE, !.resubscribe = FALSE],
        <<SendEv("UNLISTEN", l.pattern, NoVersion, NoPath, NoVal, EmptyDoc, NoConfig)>>, NoExc)

\* Listener.destroy
ListenerDestroy(l) == [l EXCEPT !.callback = NoCb, !.pattern = ""]

\* Listener._on_message: m.val is the name of the matching subscription
ListenerOnMessage(l, m) ==
    CASE m.action = "ACK" -> Res([l EXCEPT !.ack_timeout = "cancelled"], <<>>, NoExc)
      [] m.action = "SUBSCRIPTION_FOR_PATTERN_FOUND" ->
            Res(l, <<ListenCbEv(l.callback, m.val, TRUE)>>, NoExc)
      [] OTHER -> Res(l, <<ListenCbEv(l.callback, m.val, FALSE)>>, NoExc)

\* RecordHandler.listen(pattern, callback)
ListenAlwaysRegisters(h, pattern, callback) ==
    Res([h EXCEPT !.listener_objs = Append(@, NewListener(pattern, callback)),
                  !.listeners[pattern] = Len(h.listener_objs) + 1],
        <<SendEv("LISTEN", pattern, NoVersion, NoPath, NoVal, EmptyDoc, NoConfig)>>, NoExc)
Listen(h, pattern, callback) ==
    IF h.listeners[pattern] # NoEnt
    THEN Res(h, <<ClientErrorEv("LISTENER_EXISTS", pattern)>>, NoExc)
    ELSE Res([h EXCEPT !.listener_objs = Append(@, NewListener(pattern, callback)),
                       !.listeners[pattern] = Len(h.listener_objs) + 1],
             <<SendEv("LISTEN", pattern, NoVersion, NoPath, NoVal, EmptyDoc, NoConfig)>>, NoExc)

\* the outcome of a Listener method stored back on the heap
StoredListener(h, id, res) == Res([h EXCEPT !.listener_objs[id] = res.r], res.out, res.exc)

\* RecordHandler.unlisten(pattern)
UnlistenAlwaysSends(h, pattern) ==
    IF h.listeners[pattern] = NoEnt
    THEN Res(h, <<ClientErrorEv("NOT_LISTENING", pattern)>>, NoExc)
    ELSE StoredListener(h, h.listeners[pattern],
                        ListenerSendDestroy(h.listener_objs[h.listeners[pattern]]))
Unlisten(h, pattern) ==
    IF h.listeners[pattern] = NoEnt
    THEN Res(h, <<ClientErrorEv("NOT_LISTENING", pattern)>>, NoExc)
    ELSE IF ~h.listener_objs[h.listeners[pattern]].destroy_pending
    THEN StoredListener(h, h.listeners[pattern],
                        ListenerSendDestroy(h.listener_objs[h.listeners[pattern]]))
    ELSE Res([h EXCEPT !.listener_objs[h.listeners[pattern]] = ListenerDestroy(@),
                       !.listeners[pattern] = NoEnt], <<>>, NoExc)

\* RecordHandler.handle, the part that routes a message to the Listener of
\* its name: s is the outcome so far, processed what the parts before did.
RouteToListener(processed, s, m) ==
    IF s.exc # NoExc THEN s
    ELSE IF s.r.listeners[m.name] # NoEnt
    THEN IF /\ m.action = "ACK" /\ m.ack = "UNLISTEN"
            /\ s.r.listener_objs[s.r.listeners[m.name]].destroy_pending
         THEN Res([s.r EXCEPT !.listener_objs[s.r.listeners[m.name]] = ListenerDestroy(@),
                              !.listeners[m.name] = NoEnt], s.out, NoExc)
         ELSE Then(s.out, StoredListener(s.r, s.r.listeners[m.name],
                          ListenerOnMessage(s.r.listener_objs[s.r.listeners[m.name]], m)))
    ELSE IF processed \/ m.action \in {"SUBSCRIPTION_FOR_PATTERN_REMOVED",
                                        "SUBSCRIPTION_HAS_PROVIDER"}
    THEN s
    ELSE Res(s.r, s.out \o <<ClientErrorEv("UNSOLICITED_MESSAGE", m.name)>>, NoExc)

\* the outcome rc of a registry's request or receive, stored back in the
\* handler after the handling s so far
ReceivedSnapshot(s, rc) == Res([s.r EXCEPT !.snapshot_registry = rc.r], s.out \o rc.out, rc.exc)
ReceivedHas(s, rc) == Res([s.r EXCEPT !.has_registry = rc.r], s.out \o rc.out, rc.exc)
NotifySnapshot(s, m) ==
    IF m.action = "READ" /\ s.r.snapshot_registry.requests[m.name] # <<>>
    THEN ReceivedSnapshot(s, SingleNotifierReceive(s.r.snapshot_registry, m.name, "",
                                                   NoVal, m.doc))
    ELSE s
NotifyHas(s, m) ==
    IF m.action = "HAS" /\ s.r.has_registry.requests[m.name] # <<>>
    THEN ReceivedHas(s, SingleNotifierReceive(s.r.has_registry, m.name, "",
                                              ConvertTyped(m.val), EmptyDoc))
    ELSE s

\* RecordHandler.handle from `processed = False` on: s is the outcome of the
\* registered entity's _on_message (to_record), or nothing done.
FanOut(to_record, s, m) ==
    IF s.exc # NoExc THEN s
    ELSE RouteToListener(\/ to_record
                         \/ m.action = "READ" /\ s.r.snapshot_registry.requests[m.name] # <<>>
                         \/ m.action = "HAS" /\ s.r.has_registry.requests[m.name] # <<>>,
                         NotifyHas(NotifySnapshot(s, m), m), m)

\* RecordHandler.handle(message).  m.action is the action of the message (or
\* VERSION_EXISTS for that error), m.ack the first data field of an ACK or
\* ERROR, m.name the record name or pattern.
Handle(h, cs, m) ==
    IF m.action = "ERROR" /\ m.ack \notin {"SNAPSHOT", "HAS"}
    THEN Res(h, <<ClientErrorEv(m.ack, m.name)>>, NoExc)
    ELSE IF m.action \in {"ACK", "ERROR"} /\ m.ack \in {"DELETE", "UNSUBSCRIBE"}
    THEN Deliver([h EXCEPT !.destroy_emitter[m.name] = <<>>], h.destroy_emitter[m.name],
                 cs, m, m.ack = "DELETE")
    ELSE IF m.action \in {"ACK", "ERROR"} /\ m.ack \in {"SNAPSHOT", "HAS"}
    THEN ReceivedSnapshot(Res(h, <<>>, NoExc),
                          SingleNotifierReceive(h.snapshot_registry, m.name, m.val,
                                                NoVal, EmptyDoc))
    ELSE IF h.records[m.name] # NoEnt
    THEN FanOut(TRUE, EntityOnMessage(h, h.records[m.name], cs, m), m)
    ELSE FanOut(FALSE, Res(h, <<>>, NoExc), m)

\* Record(...) / List(...): the constructor puts a new object on the heap and
\* sends its first read.
Construct(h, name, kind) ==
    Res([h EXCEPT !.ents = Append(@, NewEntity(NewRecord(name, kind, RemoteWins)))],
        SendRead(NewRecord(name, kind, RemoteWins)), NoExc)

\* the coroutine of a get_record / get_list call at its yield of
\* read_future: it runs on at once when the future is done already
Await(h, call, name, id) ==
    [h EXCEPT !.results = Append(@, [call |-> call, name |-> name, ent |-> id,
                                     done |-> h.ents[id].r.read_future = "done"])]

\* RecordHandler.get_record(name)
GetRecord(h, name) ==
    IF h.records[name] # NoEnt
    THEN Res(Await(h, "get_record", name, h.records[name]), <<>>, NoExc)
    ELSE LET c == Construct(h, name, "record")
             id == Len(c.r.ents)
         IN Res(Await([c.r EXCEPT !.ents[id].hooks = @ + 1, !.records[name] = id,
                                  !.ents[id].r.usages = @ + 1], "get_record", name, id),
                c.out, NoExc)

\* RecordHandler.get_list(name)
GetList(h, name) ==
    LET c == IF h.lists[name] # NoEnt THEN Res(h, <<>>, NoExc)
             ELSE LET n == Construct(h, name, "list")
                  IN Res([n.r EXCEPT !.lists[name] = Len(n.r.ents)], n.out, NoExc)
        id == c.r.lists[name]
        h2 == IF c.r.records[name] = NoEnt
              THEN [c.r EXCEPT !.records[name] = id, !.ents[id].hooks = @ + 1]
              ELSE c.r
        h3 == [h2 EXCEPT !.ents[h2.records[name]].r.usages = @ + 1]
    IN Res(Await(h3, "get_list", name, id), c.out, NoExc)

\* RecordHandler.has(name, callback)
Has(h, name, callback) ==
    IF h.records[name] # NoEnt
    THEN Res(h, <<ResponseEv(callback, "", "True", EmptyDoc)>>, NoExc)
    ELSE LET rq == SingleNotifierRequest(h.has_registry, "HAS", name, callback)
         IN Res([h EXCEPT !.has_registry = rq.r], rq.out, rq.exc)

\* self._records[name].get(): the document of a Record, the array of a List
GetOf(r) == IF r.kind = "list" THEN ListVal(ListGet(r)) ELSE r.data

\* RecordHandler.snapshot(name, callback)
SnapshotWhenResident(h, name, callback) ==
    IF h.records[name] # NoEnt
    THEN Res(h, <<ResponseEv(callback, "", NoVal, GetOf(h.ents[h.records[name]].r))>>, NoExc)
    ELSE ReceivedSnapshot(Res(h, <<>>, NoExc),
                          SingleNotifierRequest(h.snapshot_registry, "SNAPSHOT", name, callback))
Snapshot(h, name, callback) ==
    IF h.records[name] # NoEnt /\ h.ents[h.records[name]].r.is_ready
    THEN Res(h, <<ResponseEv(callback, "", NoVal, GetOf(h.ents[h.records[name]].r))>>, NoExc)
    ELSE ReceivedSnapshot(Res(h, <<>>, NoExc),
                          SingleNotifierRequest(h.snapshot_registry, "SNAPSHOT", name, callback))

\* ------------------------------------------------------------------- state
VARIABLES
    rec,    \* the Record under test
    conn,   \* client.connection_state
    hdl,    \* the RecordHandler with the entities it has constructed
    cycle,  \* the client reported RECONNECTING and has not reported OPEN since
    acks,   \* an AckTimeoutRegistry, and the deadlines a clear or remove was for
    op,     \* the call or message the last step handled
    out     \* what the last step produced, in order

vars == <<rec, conn, hdl, cycle, acks, op, out>>

RaiseEv(exc) == Ev("raise", exc, "", NoVersion, NoPath, NoVal, EmptyDoc, NoConfig)

\* One step on the Record under test: the handler runs to its end (or to the
\* exception it raises) and its outputs are recorded.
Step(input, res) ==
    /\ rec' = res.r
    /\ out' = IF res.exc = NoExc THEN res.out ELSE Append(res.out, RaiseEv(res.exc))
    /\ op' = [input EXCEPT !.pv = rec.version]
    /\ UNCHANGED <<conn, hdl, cycle, acks>>

\* The Record right after Record.__init__ (which sends the first read).
InitRecord(strategies) ==
    /\ \E s \in strategies : rec = NewRecord("r1", "record", s)
    /\ conn = "OPEN"
    /\ cycle = FALSE
    /\ acks = [reg |-> NewAckRegistry, cleared |-> {}]
    /\ hdl = NewHandler
    /\ op = NoIn
    /\ out = SendRead(NewRecord("r1", "record", RemoteWins))

\* record.set(...)
SetCall(args) ==
    \E a \in args :
        /\ rec.is_ready => rec.version < MaxVersion
        /\ (~rec.is_ready /\ ~rec.is_destroyed) => Len(rec.queued) < MaxQueued
        /\ Step(a, RecordSet(rec, conn, a))

\* record.subscribe(callback, path)
SubscribeCall(paths) ==
    \E p \in paths :
        /\ p \notin rec.subs
        /\ Step([NoIn EXCEPT !.kind = "subscribe", !.path = p], Subscribe(rec, p, FALSE))

\* an inbound message for the record, passed on by RecordHandler.handle
ReceiveMsg(msgs) ==
    \E m \in msgs :
        /\ ~rec.is_destroyed
        /\ (rec.merge_strategy = Custom) => Len(rec.pending_resolves) < MaxPending
        /\ Step(m, OnMessage(rec, conn, m))

\* the custom merge strategy calls resolve(error, data) of its oldest closure
ResolveMerge(docs) ==
    \E error \in BOOLEAN, d \in docs :
        /\ rec.pending_resolves # <<>>
        /\ error => d = EmptyDoc
        /\ LET m == Head(rec.pending_resolves)
               r1 == [rec EXCEPT !.pending_resolves = Tail(@)]
           IN Step([m EXCEPT !.kind = "resolve", !.error = error, !.doc = d,
                             !.rdoc = m.doc],
                   OnRecordRecovered(r1, m, error, d))

\* ------------------------------------------------------------------- a List
\* A List under set, add_entry, remove_entry and remove_at calls,
\* entry listeners, inbound READ and UPDATE messages, and the ACK of a delete
\* made by another client.
Arrays == UNION {[1..n -> Entries] : n \in 0..MaxLen}
InboundArrays == {ListVal(<<"x">>), ListVal(<<"y", "x">>), EmptyDoc}

InitL ==
    /\ rec = NewRecord("l1", "list", RemoteWins)
    /\ conn = "OPEN"
    /\ cycle = FALSE
    /\ acks = [reg |-> NewAckRegistry, cleared |-> {}]
    /\ hdl = NewHandler
    /\ op = NoIn
    /\ out = SendRead(NewRecord("l1", "list", RemoteWins))

\* the guards the bounds put on a call that changes the list
ListCallAllowed ==
    /\ rec.is_ready => rec.version < MaxVersion
    /\ ~rec.is_ready => Len(rec.queued) < MaxQueued

\* list.on(event, callback) for the entry events in evs
ListenL ==
    \E evs \in {{ENTRY_REMOVED_EVENT}, EntryEvents} :
        /\ rec.listeners = {}
        /\ Step([NoIn EXCEPT !.kind = "on"], Res([rec EXCEPT !.listeners = evs], <<>>, NoExc))

\* list.set(entries)
ListSetL ==
    \E entries \in Arrays :
        /\ ListCallAllowed
        /\ LET a == [NoIn EXCEPT !.kind = "set", !.doc = ListVal(entries)]
           IN Step(a, ListSet(rec, conn, a))

\* list.add_entry(entry, index)
AddEntryL ==
    \E entry \in Entries, index \in {NoIndex} \cup 0..(MaxLen - 1) :
        /\ ListCallAllowed
        /\ Len(ListGet(rec)) < MaxLen
        /\ LET a == [NoIn EXCEPT !.kind = "add_entry", !.val = entry, !.ver = index]
           IN Step(a, ListAddEntry(rec, conn, a))

\* list.remove_entry(entry)
RemoveEntryL ==
    \E entry \in Entries :
        /\ ListCallAllowed
        /\ LET a == [NoIn EXCEPT !.kind = "remove_entry", !.val = entry]
           IN Step(a, ListRemoveEntry(rec, conn, a))

\* list.remove_at(index)
RemoveAtL ==
    \E index \in 0..(MaxLen - 1) :
        /\ ListCallAllowed
        /\ LET a == [NoIn EXCEPT !.kind = "remove_at", !.ver = index]
           IN Step(a, ListRemoveAt(rec, conn, a))

ReadL == ReceiveMsg(ReadMsgs({0}, InboundArrays))
UpdateL == ReceiveMsg(UpdateMsgs(1..MaxVersion, InboundArrays))
DeleteAckL == ReceiveMsg(AckMsgs({"DELETE"}))
NextL ==
    \/ ListenL \/ ListSetL \/ AddEntryL \/ RemoveEntryL \/ RemoveAtL
    \/ ReadL \/ UpdateL \/ DeleteAckL
SpecList == InitL /\ [][NextL]_vars

\* ---------------------------------------------------- versions and conflicts
\* A Record under local writes, inbound READ/UPDATE/PATCH, VERSION_EXISTS
\* errors and merge-strategy resolutions.
DocA(v) == [EmptyDoc EXCEPT !["a"] = v]
DocsV == {EmptyDoc, DocA("n1")}

InitV == InitRecord({RemoteWins, Custom, NoStrategy})
SetV == SetCall(SetArgs(DocsV, {"a"}, {"n1"}, {NoCb}))
ReadV == ReceiveMsg(ReadMsgs(Versions, DocsV))
UpdateV == ReceiveMsg(UpdateMsgs(Versions, DocsV))
PatchV == ReceiveMsg(PatchMsgs(Versions, {"a"}, {"n1"}))
VersionExistsV == ReceiveMsg(VersionExistsMsgs(Versions, DocsV, {NoConfig}))
ResolveV == ResolveMerge(DocsV)
NextV == SetV \/ ReadV \/ UpdateV \/ PatchV \/ VersionExistsV \/ ResolveV
SpecVersion == InitV /\ [][NextV]_vars

\* ------------------------------------------------------- the data of a List
\* A List under READ and UPDATE messages whose payload is or is not an array,
\* and set calls with and without valid arguments.
PayloadsP == {ListVal(<<"x">>), EmptyDoc, DocA("n1")}
SetArgsP == {ListVal(<<>>), ListVal(<<"y">>), EmptyDoc, DocA("n1"),
             ListVal(<<NotAString>>), ListVal(<<"x", NotAString>>)}

SetP ==
    \E d \in SetArgsP :
        /\ ListCallAllowed
        /\ LET a == [NoIn EXCEPT !.kind = "set", !.doc = d]
           IN Step(a, ListSet(rec, conn, a))
ReadP == ReceiveMsg(ReadMsgs({0, 1}, PayloadsP))
UpdateP == ReceiveMsg(UpdateMsgs(1..MaxVersion, PayloadsP))
NextP == ListenL \/ SetP \/ ReadP \/ UpdateP
SpecListData == InitL /\ [][NextP]_vars

\* ------------------------------------------------------------- local writes
\* A Record made ready by its first READ, under record.set with and without a
\* path and a write callback, and subscriptions.
DocAB(x, y) == [EmptyDoc EXCEPT !["a"] = x, !["b"] = y]
DocsS == {EmptyDoc, DocA("n1"), DocA("lst"), DocAB("n1", "n1")}
PathSetsS ==
    {[NoIn EXCEPT !.kind = "set", !.path = pv[1], !.val = pv[2], !.cb = c] :
        pv \in {<<"a", "n1">>, <<"a", "lst">>, <<"b", "n1">>},
        c \in Callbacks \cup {NoCb}}

InitS == InitRecord({RemoteWins})
SetDocS == rec.is_ready /\ SetCall(SetArgs(DocsS, {}, {}, Callbacks \cup {NoCb}))
SetPathS == rec.is_ready /\ SetCall(PathSetsS)
SubscribeS == SubscribeCall({ALL_EVENT, "a", "b"})
ReadS == rec.version = NoVersion /\ ReceiveMsg(ReadMsgs(Versions, DocsS))
NextS == SetDocS \/ SetPathS \/ SubscribeS \/ ReadS
SpecSet == InitS /\ [][NextS]_vars

\* ------------------------------------------------- queued calls and the ledger
\* A Record under set calls with and without a callback, made before and
\* after the first READ, and write acknowledgements.
DocsQ == {EmptyDoc, DocA("n1")}
VersionLists == {<<v>> : v \in 1..(MaxVersion + 1)} \cup {<<1, 2>>, <<2, 1>>}

InitQ == InitRecord({RemoteWins})
CallbacksQ == {1, 2}
SetQ == SetCall(SetArgs(DocsQ, {"a", "b"}, {"n1"}, CallbacksQ \cup {NoCb}))
ReadQ == rec.version = NoVersion /\ ReceiveMsg(ReadMsgs({0, 1}, DocsQ))
WriteAckQ == rec.is_ready /\ ReceiveMsg(WriteAckMsgs(VersionLists, {"L", "Serr"}))
NextQ == SetQ \/ ReadQ \/ WriteAckQ
SpecQueue == InitQ /\ [][NextQ]_vars

\* ------------------------------------------------- writes and the connection
\* A Record under set calls with and without a callback while the connection
\* changes its state.
ConnStates == {"OPEN", "CLOSED", "RECONNECTING", "ERROR"}
DocsC == {EmptyDoc, DocA("n1")}

\* the client emits CONNECTION_STATE_CHANGED with `state`
ReportState(state) ==
    LET res == HandleConnectionStateChanges(rec, state)
    IN /\ conn' = state
       /\ cycle' = (state = "RECONNECTING" \/ (state # "OPEN" /\ cycle))
       /\ rec' = res.r
       /\ out' = res.out
       /\ op' = [NoIn EXCEPT !.kind = "state", !.action = state, !.pv = rec.version]
       /\ UNCHANGED <<hdl, acks>>
\* ... with a state other than the current one
ConnectionStateChanged(states) == \E state \in states \ {conn} : ReportState(state)
\* ... with any state, the current one included
ConnectionStateReported(states) == \E state \in states : ReportState(state)

InitC == InitRecord({RemoteWins})
SetC == rec.is_ready /\ SetCall(SetArgs(DocsC, {"a"}, {"n1", "lst"}, Callbacks \cup {NoCb}))
ReadC == rec.version = NoVersion /\ ReceiveMsg(ReadMsgs({0}, DocsC))
StateC == ConnectionStateChanged(ConnStates)
NextC == SetC \/ ReadC \/ StateC
SpecConn == InitC /\ [][NextC]_vars

\* ---------------------------------------------------------- after destruction
\* a timer of the record fires: the io_loop runs partial(self._on_timeout, ...)
RecordTimerFires ==
    \E timer \in Timers :
        /\ rec[timer] = "armed"
        /\ Step([NoIn EXCEPT !.kind = "timeout", !.action = timer], OnTimeout(rec, timer))

\* A Record with subscribers under its first READ, remote UPDATEs, the ACKs of
\* SUBSCRIBE, DELETE and UNSUBSCRIBE (ready or not), its timers and connection
\* state changes.
InitX == InitRecord({RemoteWins})
SubscribeX == SubscribeCall({ALL_EVENT, "a"})
ReadX == rec.version = NoVersion /\ ReceiveMsg(ReadMsgs({0}, DocsC))
UpdateX == rec.is_ready /\ ReceiveMsg(UpdateMsgs({rec.version + 1} \cap Versions, DocsC))
AckX == ReceiveMsg(AckMsgs({"SUBSCRIBE", "DELETE", "UNSUBSCRIBE"}))
TimerX == RecordTimerFires
StateX == ConnectionStateChanged(ConnStates)
NextX == SubscribeX \/ ReadX \/ UpdateX \/ AckX \/ TimerX \/ StateX
SpecDestroy == InitX /\ [][NextX]_vars

\* ------------------------------------------------------------ reconnecting
\* A Record from its construction to its destruction under connection states
\* reported in any order and any number of times.
InitY == InitRecord({RemoteWins})
ReadY == rec.version = NoVersion /\ ReceiveMsg(ReadMsgs({0}, DocsC))
SetY == rec.is_ready /\ SetCall(SetArgs(DocsC, {}, {}, {NoCb}))
AckY == ReceiveMsg(AckMsgs({"SUBSCRIBE", "DELETE", "UNSUBSCRIBE"}))
StateY == ConnectionStateReported(ConnStates)
NextY == ReadY \/ SetY \/ AckY \/ StateY
SpecReconnect == InitY /\ [][NextY]_vars

\* ------------------------------------------- conflicts and write callbacks
\* A ready Record under set calls with and without a callback, conflicting
\* UPDATEs, VERSION_EXISTS errors with and without a writeSuccess config,
\* merge-strategy resolutions and write acknowledgements.
InitR == InitRecord({RemoteWins, Custom, NoStrategy})
ReadR == rec.version = NoVersion /\ ReceiveMsg(ReadMsgs({0}, {EmptyDoc}))
SetR == rec.is_ready /\ SetCall(SetArgs(DocsV, {}, {}, Callbacks \cup {NoCb}))
UpdateR == rec.is_ready /\ ReceiveMsg(UpdateMsgs(Versions, DocsV))
VersionExistsR ==
    rec.is_ready /\ ReceiveMsg(VersionExistsMsgs(Versions, DocsV, {NoConfig, WriteSuccess}))
ResolveR == ResolveMerge(DocsV)
WriteAckR ==
    rec.is_ready /\ ReceiveMsg(WriteAckMsgs({<<v>> : v \in 1..(MaxVersion + 1)}, {"L"}))
NextR == ReadR \/ SetR \/ UpdateR \/ VersionExistsR \/ ResolveR \/ WriteAckR
SpecRecover == InitR /\ [][NextR]_vars

\* ------------------------------------------------------ handed-out values
\* A Record that hands out values (get, subscriber callbacks) to callers that
\* change, in place, what they were handed.
\* record.get(path)
GetCall(paths) ==
    \E p \in paths :
        /\ rec.is_ready
        /\ Step([NoIn EXCEPT !.kind = "get", !.path = p], Get(rec, p))

\* record.subscribe(callback, path, trigger_now)
SubscribeNowCall(paths) ==
    \E p \in paths, trigger_now \in BOOLEAN :
        /\ p \notin rec.subs
        /\ Step([NoIn EXCEPT !.kind = "subscribe", !.path = p, !.flag = trigger_now],
                Subscribe(rec, p, trigger_now))

\* a caller changes in place the object it was handed, which self._data is
\* still bound to (changing a copy is no step of the record)
MutateHandedOut(docs) ==
    \E d \in docs \ {rec.data} :
        /\ rec.data_shared
        /\ Step([NoIn EXCEPT !.kind = "mutate", !.doc = d],
                Res([rec EXCEPT !.data = d], <<>>, NoExc))

InitA == InitRecord({RemoteWins})
GetA == GetCall({NoPath, "a"})
SubscribeA == SubscribeNowCall({ALL_EVENT, "a"})
SetA == rec.is_ready /\ SetCall(SetArgs(DocsC, {"a"}, {"n1"}, {NoCb}))
ReadA == rec.version = NoVersion /\ ReceiveMsg(ReadMsgs({0}, DocsC))
UpdateA == rec.is_ready /\ ReceiveMsg(UpdateMsgs({rec.version + 1} \cap Versions, DocsC))
MutateA == MutateHandedOut(DocsC)
NextA == GetA \/ SubscribeA \/ SetA \/ ReadA \/ UpdateA \/ MutateA
SpecAlias == InitA /\ [][NextA]_vars

\* ------------------------------------------------------ change notification
\* A ready or not yet ready Record with subscribers under every source of a
\* change: local set, first READ, in-sequence UPDATE/PATCH, conflict recovery.
DocsN == {EmptyDoc, DocA("n1"), DocAB(Absent, "n1"), DocAB("n1", "n1")}

InitN == InitRecord({RemoteWins, Custom})
SetN == rec.is_ready /\ SetCall(SetArgs(DocsN, Keys, {"n1"}, {NoCb}))
SubscribeN == SubscribeCall({ALL_EVENT, "a"})
ReadN == rec.version = NoVersion /\ ReceiveMsg(ReadMsgs(Versions, DocsN))
\* remote updates in sequence (version + 1) and out of sequence (version + 2)
NextVersions == {v \in Versions : v - rec.version \in {1, 2}}
UpdateN == ReceiveMsg(UpdateMsgs(NextVersions, DocsN))
PatchN == ReceiveMsg(PatchMsgs(NextVersions, Keys, {"n1"}))
ResolveN == ResolveMerge(DocsN)
NextN == SetN \/ SubscribeN \/ ReadN \/ UpdateN \/ PatchN \/ ResolveN
SpecNotify == InitN /\ [][NextN]_vars

\* --------------------------------------------------------- the RecordHandler
\* A RecordHandler under get_record, get_list and has calls, discard calls on
\* the entities handed out, completion of the sends of first reads, and the
\* READ, HAS and UNSUBSCRIBE-ACK messages the server answers with.
Count(o, action, name) ==
    Len(SelectSeq(o, LAMBDA e : e.t = "send" /\ e.act = action /\ e.name = name))

\* One step on the RecordHandler.
HStep(input, res) ==
    /\ hdl' = [res.r EXCEPT !.has_sent =
                   [n \in Names |-> IF res.r.has_registry.requests[n] = <<>> THEN 0
                                    ELSE hdl.has_sent[n] + Count(res.out, "HAS", n)]]
    /\ out' = IF res.exc = NoExc THEN res.out ELSE Append(res.out, RaiseEv(res.exc))
    /\ op' = input
    /\ UNCHANGED <<rec, conn, cycle, acks>>

Counted(h) == [h EXCEPT !.ncalls = @ + 1]

InitH ==
    /\ rec = NewRecord("r1", "record", RemoteWins)
    /\ conn = "OPEN"
    /\ cycle = FALSE
    /\ acks = [reg |-> NewAckRegistry, cleared |-> {}]
    /\ hdl = NewHandler
    /\ op = NoIn
    /\ out = <<>>

\* handler.get_record(name)
GetRecordCall(names) ==
    \E n \in names :
        /\ hdl.ncalls < MaxCalls
        /\ hdl.records[n] = NoEnt => Len(hdl.ents) < MaxEntities
        /\ LET res == GetRecord(Counted(hdl), n)
           IN HStep([NoIn EXCEPT !.kind = "get_record", !.name = n,
                                 !.ent = res.r.results[Len(res.r.results)].ent], res)

\* handler.get_list(name)
GetListCall(names) ==
    \E n \in names :
        /\ hdl.ncalls < MaxCalls
        /\ hdl.lists[n] = NoEnt => Len(hdl.ents) < MaxEntities
        /\ LET res == GetList(Counted(hdl), n)
           IN HStep([NoIn EXCEPT !.kind = "get_list", !.name = n,
                                 !.ent = res.r.results[Len(res.r.results)].ent], res)

\* handler.has(name, callback) with a callback of its own
HasCall(names) ==
    \E n \in names :
        /\ hdl.ncalls < MaxCalls
        /\ HStep([NoIn EXCEPT !.kind = "has", !.name = n, !.cb = hdl.ncalls + 1],
                 Has(Counted(hdl), n, hdl.ncalls + 1))

\* entity.discard() by a holder of the entity
DiscardCall(names) ==
    \E id \in 1..Len(hdl.ents) :
        /\ hdl.ents[id].r.name \in names
        /\ ~hdl.ents[id].r.is_destroyed
        /\ hdl.ents[id].r.usages > Len(hdl.ents[id].on_ready)
        /\ HStep([NoIn EXCEPT !.kind = "discard", !.name = hdl.ents[id].r.name, !.ent = id],
                 DiscardOrDelete(hdl, id, "discard"))

\* the connection completes the send of an entity's first read
SendComplete ==
    \E id \in 1..Len(hdl.ents) :
        /\ hdl.ents[id].r.read_future = "pending"
        /\ HStep([NoIn EXCEPT !.kind = "send_complete", !.name = hdl.ents[id].r.name,
                              !.ent = id],
                 Res([hdl EXCEPT !.ents[id].r.read_future = "done"], <<>>, NoExc))

\* a get_record / get_list coroutine runs on after its yield and returns
Resume ==
    \E i \in 1..Len(hdl.results) :
        /\ ~hdl.results[i].done
        /\ hdl.ents[hdl.results[i].ent].r.read_future = "done"
        /\ HStep([NoIn EXCEPT !.kind = "resume", !.name = hdl.results[i].name,
                              !.ent = hdl.results[i].ent],
                 Res([hdl EXCEPT !.results[i].done = TRUE], <<>>, NoExc))

\* the server answers a first read
HandleRead ==
    \E n \in Names :
        /\ \E id \in 1..Len(hdl.ents) :
              /\ hdl.ents[id].r.name = n
              /\ hdl.ents[id].r.version = NoVersion /\ ~hdl.ents[id].r.is_destroyed
        /\ LET m == [NoIn EXCEPT !.kind = "handle", !.action = "READ", !.name = n,
                                 !.ver = 0, !.doc = EmptyDoc]
           IN HStep(m, Handle(hdl, conn, m))

\* the server answers a HAS request
HandleHas ==
    \E n \in Names, token \in {"T", "F"} :
        /\ hdl.has_registry.requests[n] # <<>>
        /\ LET m == [NoIn EXCEPT !.kind = "handle", !.action = "HAS", !.name = n,
                                 !.val = token]
           IN HStep(m, Handle(hdl, conn, m))

\* the server acknowledges an UNSUBSCRIBE
HandleUnsubscribeAck ==
    \E n \in Names :
        /\ \E id \in 1..Len(hdl.ents) :
              /\ hdl.ents[id].r.name = n
              /\ hdl.ents[id].r.discard_timeout = "armed" /\ ~hdl.ents[id].r.is_destroyed
        /\ LET m == [NoIn EXCEPT !.kind = "handle", !.action = "ACK", !.name = n,
                                 !.ack = "UNSUBSCRIBE"]
           IN HStep(m, Handle(hdl, conn, m))

GetRecordH == GetRecordCall(Names)
GetListH == GetListCall({"x"})
DiscardH == DiscardCall({"x"})
NextH ==
    \/ GetRecordH \/ GetListH \/ DiscardH
    \/ SendComplete \/ Resume \/ HandleRead \/ HandleUnsubscribeAck
SpecHandler == InitH /\ [][NextH]_vars

\* has calls for names with and without a resident record, and HAS responses.
HasR == HasCall(Names)
GetRecordR == GetRecordCall(Names)
NextHas == HasR \/ GetRecordR \/ HandleRead \/ HandleHas
SpecHas == InitH /\ [][NextHas]_vars

\* ------------------------------------------------------- has and snapshot
\* handler.snapshot(name, callback) with a callback of its own
SnapshotCall(names) ==
    \E n \in names :
        /\ hdl.ncalls < MaxCalls
        /\ HStep([NoIn EXCEPT !.kind = "snapshot", !.name = n, !.cb = hdl.ncalls + 1],
                 Snapshot(Counted(hdl), n, hdl.ncalls + 1))

\* the server answers a SNAPSHOT request with a READ
HandleSnapshotRead ==
    \E n \in Names, d \in {EmptyDoc, DocA("n1")} :
        /\ hdl.snapshot_registry.requests[n] # <<>>
        /\ LET m == [NoIn EXCEPT !.kind = "handle", !.action = "READ", !.name = n,
                                 !.ver = 0, !.doc = d]
           IN HStep(m, Handle(hdl, conn, m))

\* has and snapshot calls for a name with no record, with a record that waits
\* for its first READ and with a ready record, and the server's answers.
HasS == HasCall({"x"})
SnapshotS == SnapshotCall({"x"})
GetRecordS == GetRecordCall({"x"})
NextSnapshot == HasS \/ SnapshotS \/ GetRecordS \/ HandleRead \/ HandleHas \/ HandleSnapshotRead
SpecSnapshot == InitH /\ [][NextSnapshot]_vars

\* the server acknowledges a DELETE of a record some entity subscribes to
\* (the delete of another client)
HandleDeleteAck ==
    \E n \in Names :
        /\ \E id \in 1..Len(hdl.ents) :
              hdl.ents[id].r.name = n /\ ~hdl.ents[id].r.is_destroyed
        /\ LET m == [NoIn EXCEPT !.kind = "handle", !.action = "ACK", !.name = n,
                                 !.ack = "DELETE"]
           IN HStep(m, Handle(hdl, conn, m))

\* get_record, get_list and discard of one name, first reads, and the ACKs of
\* UNSUBSCRIBE and of a DELETE.
GetRecordG == GetRecordCall({"x"})
GetListG == GetListCall({"x"})
DiscardG == DiscardCall({"x"})
NextRegistry ==
    \/ GetRecordG \/ GetListG \/ DiscardG
    \/ HandleRead \/ HandleUnsubscribeAck \/ HandleDeleteAck
SpecRegistry == InitH /\ [][NextRegistry]_vars

\* ------------------------------------------------------- discard and delete
\* entity.delete() by a holder of the entity
DeleteCall(names) ==
    \E id \in 1..Len(hdl.ents) :
        /\ hdl.ncalls < MaxCalls
        /\ hdl.ents[id].r.name \in names
        /\ ~hdl.ents[id].r.is_destroyed
        /\ hdl.ents[id].r.usages > 0
        /\ HStep([NoIn EXCEPT !.kind = "delete", !.name = hdl.ents[id].r.name, !.ent = id],
                 DiscardOrDelete(Counted(hdl), id, "delete"))

\* the connection completes the send of an UNSUBSCRIBE or DELETE: the done
\* callback resolves the future of the call
FutureSendComplete ==
    \E f \in 1..Len(hdl.futures) :
        /\ hdl.futures[f] = "sent"
        /\ HStep([NoIn EXCEPT !.kind = "future_done", !.ent = f],
                 Res([hdl EXCEPT !.futures[f] = "done"], <<>>, NoExc))

\* the server acknowledges a DELETE this client sent
HandleOwnDeleteAck ==
    \E n \in Names :
        /\ \E id \in 1..Len(hdl.ents) :
              /\ hdl.ents[id].r.name = n
              /\ hdl.ents[id].r.delete_ack_timeout = "armed" /\ ~hdl.ents[id].r.is_destroyed
        /\ LET m == [NoIn EXCEPT !.kind = "handle", !.action = "ACK", !.name = n,
                                 !.ack = "DELETE"]
           IN HStep(m, Handle(hdl, conn, m))

\* get_record and get_list of one name, discard and delete calls by the
\* holders, the first READ, the completion of sends and the server's ACKs;
\* the connection completes every send it was handed.
GetRecordD == GetRecordCall({"x"})
GetListD == GetListCall({"x"})
DiscardD == DiscardCall({"x"})
DeleteD == DeleteCall({"x"})
NextDiscard ==
    \/ GetRecordD \/ GetListD \/ DiscardD \/ DeleteD
    \/ HandleRead \/ FutureSendComplete \/ HandleUnsubscribeAck \/ HandleOwnDeleteAck
SpecDiscard == InitH /\ [][NextDiscard]_vars /\ WF_vars(FutureSendComplete)

\* ------------------------------------------------------------------ timeouts
\* the 'error' listeners the handler attached to an entity, run for an error
\* the entity emitted: RecordHandler._on_record_error
OnRecordError(h, id, res) ==
    Res([h EXCEPT !.ents[id].r = res.r],
        res.out \o [i \in 1..(IF res.out = <<>> THEN 0 ELSE h.ents[id].hooks) |->
                       ClientErrorEv(res.out[1].name, h.ents[id].r.name)],
        res.exc)

\* a timer of an entity fires
TimerFires ==
    \E id \in 1..Len(hdl.ents), timer \in Timers :
        /\ hdl.ents[id].r[timer] = "armed"
        /\ HStep([NoIn EXCEPT !.kind = "timeout", !.action = timer,
                              !.name = hdl.ents[id].r.name, !.ent = id],
                 OnRecordError(hdl, id, OnTimeout(hdl.ents[id].r, timer)))

\* the server acknowledges the subscription a first read made
HandleSubscribeAck ==
    \E n \in Names :
        /\ \E id \in 1..Len(hdl.ents) :
              /\ hdl.ents[id].r.name = n
              /\ hdl.ents[id].r.read_ack_timeout = "armed" /\ ~hdl.ents[id].r.is_destroyed
        /\ LET m == [NoIn EXCEPT !.kind = "handle", !.action = "ACK", !.name = n,
                                 !.ack = "SUBSCRIBE"]
           IN HStep(m, Handle(hdl, conn, m))

\* One record under discard and delete calls, the READ and the ACKs of the
\* server, and its four timers.
GetRecordT == GetRecordCall({"x"})
DiscardT == DiscardCall({"x"})
DeleteT == DeleteCall({"x"})
NextTimeout ==
    \/ GetRecordT \/ DiscardT \/ DeleteT \/ TimerFires
    \/ HandleRead \/ HandleSubscribeAck \/ HandleUnsubscribeAck \/ HandleOwnDeleteAck
SpecTimeout == InitH /\ [][NextTimeout]_vars

\* ------------------------------------------------------------ SingleNotifiers
\* the response timer of a has or snapshot request fires
ResponseTimerFires ==
    \E action \in {"HAS", "SNAPSHOT"} :
        LET sn == IF action = "HAS" THEN hdl.has_registry ELSE hdl.snapshot_registry
        IN \E t \in 1..Len(sn.timeouts) :
              /\ sn.timeouts[t].state = "armed"
              /\ LET res == OnResponseTimeout(sn, t)
                 IN HStep([NoIn EXCEPT !.kind = "response_timeout", !.action = action,
                                       !.name = sn.timeouts[t].name, !.ent = t],
                          Res(IF action = "HAS" THEN [hdl EXCEPT !.has_registry = res.r]
                              ELSE [hdl EXCEPT !.snapshot_registry = res.r],
                              res.out, res.exc))

\* the client emits CONNECTION_STATE_CHANGED with `state`: the
\* ResubscribeNotifiers of the handler's two SingleNotifiers handle it, in the
\* order RecordHandler.__init__ created them
NotifiersStateChanged(states) ==
    \E state \in states :
        LET hs == SingleNotifierStateChanged(hdl.has_registry, "HAS", state)
            ss == SingleNotifierStateChanged(hdl.snapshot_registry, "SNAPSHOT", state)
        IN /\ hdl' = [hdl EXCEPT !.has_registry = hs.r, !.snapshot_registry = ss.r]
           /\ out' = hs.out \o ss.out
           /\ conn' = state
           /\ cycle' = (state = "RECONNECTING" \/ (state # "OPEN" /\ cycle))
           /\ op' = [NoIn EXCEPT !.kind = "state", !.action = state]
           /\ UNCHANGED <<rec, acks>>

\* A RecordHandler with no Record, List or Listener under has and snapshot
\* calls, the server's answers and the response timers.
HasN == HasCall(Names)
SnapshotN == SnapshotCall(Names)
NextNotifier == HasN \/ SnapshotN \/ HandleHas \/ HandleSnapshotRead \/ ResponseTimerFires
SpecNotifier == InitH /\ [][NextNotifier]_vars

\* ... under has and snapshot calls, the server's answers and connection
\* states reported in any order.
HasE == HasCall(Names)
SnapshotE == SnapshotCall({"x"})
StateE == NotifiersStateChanged(ConnStates)
NextResend == HasE \/ SnapshotE \/ HandleHas \/ HandleSnapshotRead \/ StateE
SpecResend == InitH /\ [][NextResend]_vars

\* the server answers a pending has or snapshot request with an error
HandleRequestError ==
    \E n \in Names, ack \in {"HAS", "SNAPSHOT"}, error \in {"RECORD_NOT_FOUND"} :
        /\ (IF ack = "HAS" THEN hdl.has_registry ELSE hdl.snapshot_registry).requests[n] # <<>>
        /\ LET m == [NoIn EXCEPT !.kind = "handle", !.action = "ERROR", !.ack = ack,
                                 !.name = n, !.val = error]
           IN HStep(m, Handle(hdl, conn, m))

\* ... under has and snapshot calls and the server's answers, errors included.
HasF == HasCall(Names)
SnapshotF == SnapshotCall(Names)
NextError == HasF \/ SnapshotF \/ HandleHas \/ HandleSnapshotRead \/ HandleRequestError
SpecError == InitH /\ [][NextError]_vars

\* -------------------------------------------------------- the ack deadlines
\* the deadlines of `key` still running
Running(reg, key) ==
    {t \in DOMAIN reg.timers : reg.timers[t].state = "armed" /\ reg.timers[t].unique_name = key}

\* One step on the AckTimeoutRegistry.  `key` is the key a clear or remove of
\* the step was for ("" when there was none): the deadlines of that key that
\* were running are recorded in cleared.
AStep(input, res, key) ==
    /\ acks' = [reg |-> res.r,
                cleared |-> acks.cleared \cup (IF key = "" THEN {} ELSE Running(acks.reg, key))]
    /\ out' = IF res.exc = NoExc THEN res.out ELSE Append(res.out, RaiseEv(res.exc))
    /\ op' = input
    /\ UNCHANGED <<rec, conn, hdl, cycle>>

\* registry.add(name, action); a deadline it replaces counts as removed
AckAddCall ==
    \E n \in Names, a \in AckActions :
        /\ Len(acks.reg.timers) < MaxDeadlines
        /\ AStep([NoIn EXCEPT !.kind = "ack_add", !.action = a, !.name = n],
                 AckAdd(acks.reg, n, a), UniqueName(a, n))

\* registry.remove(name, action)
AckRemoveCall ==
    \E n \in Names, a \in AckActions :
        AStep([NoIn EXCEPT !.kind = "ack_remove", !.action = a, !.name = n],
              AckRemove(acks.reg, n, a), UniqueName(a, n))

\* registry.clear(message) for an ACK of the server, awaited or not
AckClearCall ==
    \E n \in Names, a \in AckActions \ {NoAckAction} :
        AStep([NoIn EXCEPT !.kind = "ack_clear", !.action = a, !.name = n],
              AckClear(acks.reg, a, n, "A|" \o a \o "|" \o n), UniqueName(a, n))

\* the io_loop runs a scheduled _on_timeout
AckTimerFires ==
    \E t \in DOMAIN acks.reg.timers :
        /\ acks.reg.timers[t].state = "armed"
        /\ AStep([NoIn EXCEPT !.kind = "ack_timeout", !.name = acks.reg.timers[t].name,
                              !.ent = t],
                 AckOnTimeout(acks.reg, t), "")

NextAck == AckAddCall \/ AckRemoveCall \/ AckClearCall \/ AckTimerFires
SpecAck == InitH /\ [][NextAck]_vars

\* ---------------------------------------------------------------- listeners
\* listen and unlisten calls and the messages the server sends for a pattern.
\* handler.listen(pattern, callback) with a callback of its own
ListenCall ==
    \E p \in Names :
        /\ hdl.ncalls < MaxCalls
        /\ HStep([NoIn EXCEPT !.kind = "listen", !.name = p, !.cb = hdl.ncalls + 1],
                 Listen(Counted(hdl), p, hdl.ncalls + 1))

\* handler.unlisten(pattern)
UnlistenCall ==
    \E p \in Names :
        /\ hdl.ncalls < MaxCalls
        /\ HStep([NoIn EXCEPT !.kind = "unlisten", !.name = p], Unlisten(Counted(hdl), p))

\* the server acknowledges a LISTEN or an UNLISTEN that was sent for p
HandleListenAck ==
    \E p \in Names, a \in {"LISTEN", "UNLISTEN"} :
        /\ \E id \in 1..Len(hdl.listener_objs) :
              /\ hdl.listeners[p] = id \/ hdl.listener_objs[id].pattern = ""
              /\ a = "UNLISTEN" => hdl.listener_objs[id].destroy_pending
        /\ LET m == [NoIn EXCEPT !.kind = "handle", !.action = "ACK", !.name = p, !.ack = a]
           IN HStep(m, Handle(hdl, conn, m))

\* the server reports a subscription that matches p
HandlePatternFound ==
    \E p \in Names :
        /\ hdl.listeners[p] # NoEnt
        /\ LET m == [NoIn EXCEPT !.kind = "handle", !.action = "SUBSCRIPTION_FOR_PATTERN_FOUND",
                                 !.name = p, !.val = "x"]
           IN HStep(m, Handle(hdl, conn, m))

NextListen == ListenCall \/ UnlistenCall \/ HandleListenAck \/ HandlePatternFound
SpecListen == InitH /\ [][NextListen]_vars

\* The messages of one kind among the outputs of a step.
Sends(o, action) == SelectSeq(o, LAMBDA e : e.t = "send" /\ e.act = action)
AllSends(o) == SelectSeq(o, LAMBDA e : e.t = "send")
Fires(o, path) == SelectSeq(o, LAMBDA e : e.t = "fire" /\ e.path = path)

\* The step handled a conflict: a VERSION_EXISTS error, an UPDATE or later READ
\* whose version is not the local version plus 1, or a strategy's resolution.
IsRecovery(o) ==
    \/ o.kind = "resolve"
    \/ /\ o.kind = "recv"
       /\ \/ o.action = "VERSION_EXISTS"
          \/ o.action \in {"UPDATE", "READ"} /\ o.ver # o.pv + 1

C2_OutOfSequenceNotApplied ==
    [][(op'.kind = "recv" /\ op'.action \in {"UPDATE", "PATCH"}
          /\ rec.version # NoVersion /\ op'.ver # rec.version + 1) =>
        IF op'.action = "PATCH"
        THEN /\ rec' = rec
             /\ out' = <<SendEv("SNAPSHOT", rec.name, NoVersion, NoPath, NoVal,
                                EmptyDoc, NoConfig)>>
        ELSE CASE rec.merge_strategy = RemoteWins ->
                    /\ rec'.version = op'.ver /\ rec'.data = op'.doc
                    /\ AllSends(out') = <<>>
               [] rec.merge_strategy = Custom ->
                    /\ out' = <<MergeEv(op'.ver, op'.doc)>>
                    /\ rec'.version = rec.version /\ rec'.data = rec.data
                    /\ Len(rec'.pending_resolves) = Len(rec.pending_resolves) + 1
               [] OTHER ->
                    /\ rec' = rec
                    /\ out' = <<EmitEv("error", "VERSION_EXISTS")>>]_vars

\* C2 witness: a PATCH two versions ahead was answered by a SNAPSHOT request.
C2_Witness ==
    /\ op.kind = "recv" /\ op.action = "PATCH"
    /\ op.pv # NoVersion /\ op.ver = op.pv + 2
    /\ Len(Sends(out, "SNAPSHOT")) = 1
    /\ rec.version = op.pv

\* C3: on a ready record at version v, a remote UPDATE for v+2 under remote-wins
\* leaves version v+2 and the remote data and sends no UPDATE; a resolution of
\* a conflicting UPDATE whose data differs from the remote data sends exactly
\* one UPDATE, carrying the merged data.
C3_ConflictResolution ==
    [][rec.is_ready =>
        /\ (op'.kind = "recv" /\ op'.action = "UPDATE" /\ op'.ver = rec.version + 2
              /\ rec.merge_strategy = RemoteWins) =>
                /\ rec'.version = rec.version + 2
                /\ rec'.data = op'.doc
                /\ Sends(out', "UPDATE") = <<>>
        /\ (op'.kind = "resolve" /\ ~op'.verstr /\ ~op'.error /\ op'.doc # op'.rdoc) =>
                /\ AllSends(out') = <<SendEv("UPDATE", rec.name, op'.ver + 1, NoPath,
                                             NoVal, op'.doc, NoConfig)>>
                /\ rec'.data = op'.doc]_vars

\* C3 witness: a merge of an UPDATE two versions ahead was re-sent.
C3_Witness ==
    /\ op.kind = "resolve" /\ ~op.verstr /\ ~op.error /\ op.doc # op.rdoc
    /\ rec.is_ready /\ op.pv # NoVersion /\ op.ver = op.pv + 2
    /\ Len(Sends(out, "UPDATE")) = 1

\* C4: on a ready record, a set whose resulting document equals the current
\* document changes nothing of the record (version, data, write-callback
\* ledger, queued calls, subscriptions) and produces no output: no message,
\* no subscriber call.
C4_EqualSetIsNoOp ==
    [][(op'.kind = "set" /\ rec.is_ready
          /\ JsonSet(rec.data, op'.path, op'.val, op'.doc) = rec.data) =>
        /\ rec' = rec
        /\ out' = <<>>]_vars

\* C4 witness: a set at a path, with a callback and an ALL subscriber, of the
\* value the path already holds.
C4_Witness ==
    /\ op.kind = "set" /\ rec.is_ready /\ op.pv = rec.version
    /\ op.path = "a" /\ op.cb # NoCb /\ rec.data["a"] = op.val
    /\ ALL_EVENT \in rec.subs
    /\ out = <<>>

\* C5: on a ready record at version v, a set that changes the document leaves
\* version v+1, sends exactly one message (UPDATE without a path, PATCH with
\* one) carrying the record name and v+1, makes the data the new value, and
\* invokes the subscribers of every path whose value changed with the new
\* value.
C5_SetBumpsSendsApplies ==
    [][(op'.kind = "set" /\ rec.is_ready /\ ~rec.is_destroyed
          /\ JsonSet(rec.data, op'.path, op'.val, op'.doc) # rec.data) =>
        LET new_value == JsonSet(rec.data, op'.path, op'.val, op'.doc)
            sent == AllSends(out')
        IN /\ rec'.version = rec.version + 1
           /\ Len(sent) = 1
           /\ sent[1].act = (IF op'.path = NoPath THEN "UPDATE" ELSE "PATCH")
           /\ sent[1].name = rec.name /\ sent[1].ver = rec.version + 1
           /\ rec'.data = new_value
           /\ \A p \in rec.subs \ {ALL_EVENT} :
                 JsonGet(new_value, p) # JsonGet(rec.data, p) =>
                    Fires(out', p) = <<FireEv(p, JsonGet(new_value, p), EmptyDoc)>>]_vars

\* C6: for every change and every path with a subscriber, the subscriber is
\* invoked (once, with the new value) if and only if the value at the path
\* after the change differs from the value before it.
C6_PathSubscriberFiresIffChanged ==
    [][(\A p \in rec.subs \ {ALL_EVENT} :
        Fires(out', p) = (IF JsonGet(rec'.data, p) # JsonGet(rec.data, p)
                          THEN <<FireEv(p, JsonGet(rec'.data, p), EmptyDoc)>>
                          ELSE <<>>))]_vars

\* C6 witness: an accepted PATCH changed path b only; the subscriber of path a
\* was not invoked while the ALL subscriber was.
C6_Witness ==
    /\ op.kind = "recv" /\ op.action = "PATCH" /\ op.path = "b"
    /\ op.pv # NoVersion /\ rec.version = op.pv + 1
    /\ {"a", ALL_EVENT} \subseteq rec.subs
    /\ Fires(out, "a") = <<>> /\ Len(Fires(out, ALL_EVENT)) = 1

\* C7: for every change, an ALL subscriber is invoked exactly once (with the
\* new document) if the document after the change differs from the document
\* before it, and not at all if it does not.
C7_AllSubscriberFiresIffChanged ==
    [][(ALL_EVENT \in rec.subs) =>
        Fires(out', ALL_EVENT) = (IF rec'.data # rec.data
                                  THEN <<FireEv(ALL_EVENT, NoVal, rec'.data)>>
                                  ELSE <<>>)]_vars

\* C7 witness: conflict recovery applied the document the record already held
\* and the ALL subscriber was not invoked.
C7_Witness ==
    /\ op.kind = "recv" /\ op.action = "UPDATE"
    /\ op.pv # NoVersion /\ op.ver = op.pv + 2 /\ rec.version = op.ver
    /\ rec.data = op.doc /\ ALL_EVENT \in rec.subs
    /\ out = <<>>

\* The callbacks a step invoked, in order.
Responses(o) == SelectSeq(o, LAMBDA e : e.t = "cb")

Live(h, id) ==
    /\ ~h.ents[id].r.is_destroyed
    /\ h.ents[id].r.discard_timeout # "armed"
    /\ h.ents[id].r.delete_ack_timeout # "armed"
    /\ h.ents[id].on_ready = <<>>

\* The entities earlier calls of `call` for `name` returned.
Returned(h, call, name) ==
    {h.results[i].ent :
        i \in {j \in 1..Len(h.results) :
                  h.results[j].call = call /\ h.results[j].name = name}}

\* C9: a get_record (get_list) call for a name made while an entity an
\* earlier get_record (get_list) call for that name returned is live returns
\* that instance, constructs no entity and sends no CREATEORREAD.
C9_SameInstanceWhileLive ==
    [][(op'.kind \in {"get_record", "get_list"}) =>
        LET live == {id \in Returned(hdl, op'.kind, op'.name) : Live(hdl, id)}
        IN live # {} =>
              /\ op'.ent \in live
              /\ Len(hdl'.ents) = Len(hdl.ents)
              /\ Count(out', "CREATEORREAD", op'.name) = 0]_vars

\* C10: when the result of a get_record or get_list call resolves, the entity
\* it returns is ready.
C10_ResolvedImpliesReady ==
    [][(\A i \in 1..Len(hdl'.results) :
          (hdl'.results[i].done /\ (i > Len(hdl.results) \/ ~hdl.results[i].done)) =>
              hdl'.ents[hdl'.results[i].ent].r.is_ready)]_vars

\* C11: every get_record or get_list call raises the usage count of the entity
\* it returns by 1 (from 0 for an entity it constructs), and a discard of a
\* ready entity emits destroyPending and sends UNSUBSCRIBE exactly when it is
\* the discard of the last holder (usage count 1) and otherwise sends nothing
\* and leaves the registries alone.
C11_EveryCallCountsAsHolder ==
    [][/\ (op'.kind \in {"get_record", "get_list"}) =>
             hdl'.ents[op'.ent].r.usages =
                (IF op'.ent <= Len(hdl.ents) THEN hdl.ents[op'.ent].r.usages ELSE 0) + 1
       /\ (op'.kind = "discard" /\ hdl.ents[op'.ent].r.is_ready) =>
             IF hdl.ents[op'.ent].r.usages = 1
             THEN Count(out', "UNSUBSCRIBE", op'.name) = 1
             ELSE /\ out' = <<>>
                  /\ hdl'.records = hdl.records /\ hdl'.lists = hdl.lists]_vars

\* C12: once a Record or List is destroyed, every later call of set,
\* subscribe, unsubscribe, discard or delete (and add_entry, remove_entry,
\* remove_at on a List) emits an error event and changes nothing: version,
\* data, queued calls, subscriptions and write callbacks stay as they were and
\* no message is sent.
C12_DestroyedRejectsCalls ==
    [][(rec.is_destroyed
        /\ op'.kind \in {"set", "subscribe", "unsubscribe", "discard", "delete",
                         "add_entry", "remove_entry", "remove_at"})
       => /\ rec' = rec
          /\ Len(out') = 1 /\ out'[1].t = "emit" /\ out'[1].act = "error"]_vars

\* C13: no entity stored in the records registry or in the lists registry is
\* destroyed, and the entity a get_record or get_list call has just returned
\* (or registered again) is not destroyed.
C13_RegistriesHoldLiveEntities ==
    /\ \A n \in Names :
          /\ hdl.records[n] # NoEnt => ~hdl.ents[hdl.records[n]].r.is_destroyed
          /\ hdl.lists[n] # NoEnt => ~hdl.ents[hdl.lists[n]].r.is_destroyed
    /\ op.kind \in {"get_record", "get_list"} => ~hdl.ents[op.ent].r.is_destroyed

\* the entry events among the outputs of a step
EntryEventsOf(o) == SelectSeq(o, LAMBDA e: e.t = "emit" /\ e.act \in EntryEvents)
\* the index-to-value mapping of an array, as a set of <<index, entry>>
Mapping(entries) == {<<i - 1, entries[i]>> : i \in 1..Len(entries)}
\* The before-mapping with the events applied: a remove event takes the entry
\* from its index, an add or move event puts the entry at its index (in place
\* of what was there), and a move event of an entry also takes the entry from
\* the indices it held before.
Applied(before, evs) ==
    {p \in Mapping(before) :
        /\ \A k \in 1..Len(evs) :
              /\ evs[k].act = ENTRY_REMOVED_EVENT => <<evs[k].ver, evs[k].name>> # p
              /\ evs[k].act = ENTRY_MOVED_EVENT => evs[k].name # p[2]
              /\ evs[k].act \in {ENTRY_ADDED_EVENT, ENTRY_MOVED_EVENT} => evs[k].ver # p[1]}
    \cup {<<evs[k].ver, evs[k].name>> :
            k \in {j \in 1..Len(evs) : evs[j].act \in {ENTRY_ADDED_EVENT, ENTRY_MOVED_EVENT}}}

\* C14: with add, remove and move listeners registered, the entry events a
\* change of a ready List emits, applied to the index-to-value mapping of the
\* array before the change, give the index-to-value mapping of the array
\* after it, duplicates included.
C14_EntryEventsReconstruct ==
    [][(rec.kind = "list" /\ rec.is_ready /\ rec.listeners = EntryEvents
        /\ op'.kind \in {"set", "add_entry", "remove_entry", "remove_at", "recv"})
       => Applied(RawEntries(rec.data), EntryEventsOf(out')) = Mapping(RawEntries(rec'.data))]_vars

\* C15: on a ready List (with listeners for the three entry events),
\* remove_entry(e) of an entry the list holds leaves the list without that
\* occurrence and emits exactly one ENTRY_REMOVED_EVENT (e, old index of e)
\* and no ENTRY_ADDED_EVENT or ENTRY_MOVED_EVENT, also when other entries
\* shift to lower indices.
C15_RemoveEntryEmitsOneRemoved ==
    [][(rec.kind = "list" /\ rec.is_ready /\ rec.listeners = EntryEvents
        /\ op'.kind = "remove_entry" /\ IsList(rec.data)
        /\ Occ(RawEntries(rec.data), op'.val) # <<>>)
       => /\ rec'.data = ListVal(Deleted(rec.data.entries, IndexOf(rec.data.entries, op'.val)))
          /\ EntryEventsOf(out') =
                <<EntryEv(ENTRY_REMOVED_EVENT, op'.val, IndexOf(rec.data.entries, op'.val))>>]_vars

\* the Listener objects that hold pattern p (a destroyed Listener holds none)
ListenersOf(h, p) == {id \in 1..Len(h.listener_objs) : h.listener_objs[id].pattern = p}

\* C16: a listen call for a pattern that has a registered Listener reports
\* LISTENER_EXISTS, sends no LISTEN and leaves the registered Listener and
\* its callback as they were; at most one Listener exists per pattern.
C16_DuplicateListenRejected ==
    [][/\ (op'.kind = "listen" /\ hdl.listeners[op'.name] # NoEnt) =>
             /\ out' = <<ClientErrorEv("LISTENER_EXISTS", op'.name)>>
             /\ hdl'.listeners = hdl.listeners
             /\ hdl'.listener_objs = hdl.listener_objs
       /\ \A p \in Names : Cardinality(ListenersOf(hdl', p)) <= 1]_vars
\* a second listen for a pattern was made and rejected
C16_Witness ==
    /\ op.kind = "listen"
    /\ out = <<ClientErrorEv("LISTENER_EXISTS", op.name)>>
    /\ hdl.listeners[op.name] # NoEnt
    /\ hdl.listener_objs[hdl.listeners[op.name]].callback # op.cb

\* C17: unlisten for a pattern with no registered Listener reports
\* NOT_LISTENING and sends nothing; the first unlisten of a registered
\* Listener marks it destroy-pending and sends exactly one UNLISTEN; an
\* unlisten of a destroy-pending Listener sends nothing and removes the
\* Listener from the registry; so no Listener has UNLISTEN sent twice.
C17_UnlistenTeardown ==
    [][/\ (op'.kind = "unlisten" /\ hdl.listeners[op'.name] = NoEnt) =>
             /\ out' = <<ClientErrorEv("NOT_LISTENING", op'.name)>>
             /\ hdl'.listeners = hdl.listeners /\ hdl'.listener_objs = hdl.listener_objs
       /\ (op'.kind = "unlisten" /\ hdl.listeners[op'.name] # NoEnt) =>
             IF ~hdl.listener_objs[hdl.listeners[op'.name]].destroy_pending
             THEN /\ Count(out', "UNLISTEN", op'.name) = 1 /\ Len(out') = 1
                  /\ hdl'.listeners = hdl.listeners
                  /\ hdl'.listener_objs[hdl.listeners[op'.name]].destroy_pending
             ELSE /\ out' = <<>>
                  /\ hdl'.listeners = [hdl.listeners EXCEPT ![op'.name] = NoEnt]
       /\ \A p \in Names : Count(out', "UNLISTEN", p) > 0 =>
             /\ op'.kind = "unlisten" /\ op'.name = p /\ hdl.listeners[p] # NoEnt
             /\ ~hdl.listener_objs[hdl.listeners[p]].destroy_pending
       /\ \A id \in 1..Len(hdl.listener_objs) :
             hdl.listener_objs[id].destroy_pending => hdl'.listener_objs[id].destroy_pending]_vars
\* a second unlisten of a destroy-pending Listener was made
C17_Witness ==
    /\ op.kind = "unlisten" /\ out = <<>>
    /\ hdl.listeners[op.name] = NoEnt
    /\ \E id \in 1..Len(hdl.listener_objs) :
          hdl.listener_objs[id].destroy_pending /\ hdl.listener_objs[id].pattern = ""

\* C18: a set call on a Record that is not ready changes neither version nor
\* data and sends nothing, and is queued behind the earlier calls with the
\* data, path and callback it was called with; the first READ replays the
\* queued calls in order (their messages are sent in that order, their
\* callbacks enter the ledger) and empties the queue.
C18_QueuedSetsReplayed ==
    [][/\ (op'.kind = "set" /\ ~rec.is_ready /\ ~rec.is_destroyed) =>
             /\ rec'.version = rec.version /\ rec'.data = rec.data /\ out' = <<>>
             /\ Len(rec'.queued) = Len(rec.queued) + 1
             /\ SubSeq(rec'.queued, 1, Len(rec.queued)) = rec.queued
             /\ rec'.queued[Len(rec'.queued)].doc = op'.doc
             /\ rec'.queued[Len(rec'.queued)].val = op'.val
             /\ rec'.queued[Len(rec'.queued)].path = op'.path
             /\ rec'.queued[Len(rec'.queued)].cb = op'.cb
       /\ (op'.kind = "recv" /\ op'.action = "READ" /\ rec.version = NoVersion) =>
             /\ rec'.queued = <<>>
             /\ AllSends(out') =
                   AllSends(ReplayQueued([rec EXCEPT !.version = op'.ver, !.data = op'.doc,
                                                     !.is_ready = TRUE], conn, rec.queued).out)]_vars

\* C20: a set call with a callback that writes (it changes the document of a
\* ready record) at local version v stores the callback under key v+1 and
\* leaves the other entries of the ledger alone, as does every further local
\* write; a WRITE_ACKNOWLEDGEMENT invokes, in the order listed, the callback
\* stored for each version it lists, with the decoded payload, invokes no
\* other callback, removes the invoked callbacks from the ledger and ignores
\* the listed versions that have no stored callback.
C20_WriteCallbackLedger ==
    [][/\ (op'.kind = "set" /\ rec.is_ready) =>
             IF op'.cb # NoCb /\ JsonSet(rec.data, op'.path, op'.val, op'.doc) # rec.data
             THEN rec'.write_callbacks =
                     [rec.write_callbacks EXCEPT ![rec.version + 1] = op'.cb]
             ELSE rec'.write_callbacks = rec.write_callbacks
       /\ (op'.kind = "recv" /\ op'.action = "WRITE_ACKNOWLEDGEMENT") =>
             LET stored == SelectSeq(op'.vers, LAMBDA v : GetCallback(rec, v) # NoCb)
             IN /\ out' = [i \in 1..Len(stored) |->
                             CbEv(rec.write_callbacks[stored[i]], ConvertTyped(op'.val))]
                /\ rec'.write_callbacks =
                      [v \in DOMAIN rec.write_callbacks |->
                          IF v \in Range(op'.vers) THEN NoCb ELSE rec.write_callbacks[v]]
                /\ rec'.version = rec.version /\ rec'.data = rec.data]_vars
\* C20 witness: the acknowledgement of version 1 invoked the callback of the
\* first write after a second write with another callback had taken the
\* version to 2; the second callback stayed in the ledger.
C20_Witness ==
    /\ op.kind = "recv" /\ op.action = "WRITE_ACKNOWLEDGEMENT" /\ op.vers = <<1>>
    /\ rec.version = 2
    /\ Len(out) = 1 /\ out[1].t = "cb" /\ out[1].act = "err"
    /\ rec.write_callbacks[1] = NoCb
    /\ rec.write_callbacks[2] \notin {NoCb, out[1].ver}

\* the array after the calls, each applied once and in order
RECURSIVE ArrayAfter(_, _)
ArrayAfter(entries, calls) ==
    IF calls = <<>> THEN entries
    ELSE LET c == Head(calls)
         IN ArrayAfter(CASE c.kind = "add_entry" -> Inserted(entries, c.val, c.ver)
                         [] c.kind = "remove_entry" /\ Occ(entries, c.val) # <<>> ->
                               Deleted(entries, IndexOf(entries, c.val))
                         [] c.kind = "remove_at" /\ c.ver < Len(entries) ->
                               Deleted(entries, c.ver)
                         [] c.kind = "set" -> c.doc.entries
                         [] OTHER -> entries,
                       Tail(calls))

\* C19: add_entry, remove_entry and remove_at on a List that is not ready
\* have no effect when called (no error, no output, nothing but the call
\* itself queued), and the first READ applies the queued calls once each, in
\* call order, to the array it delivers.
C19_ListCallsDeferred ==
    [][/\ (rec.kind = "list" /\ ~rec.is_ready /\ ~rec.is_destroyed
           /\ op'.kind \in {"add_entry", "remove_entry", "remove_at"}) =>
             /\ out' = <<>>
             /\ Len(rec'.queued) = Len(rec.queued) + 1
             /\ rec'.queued[Len(rec'.queued)].kind = op'.kind
             /\ rec'.queued[Len(rec'.queued)].val = op'.val
             /\ rec'.queued[Len(rec'.queued)].ver = op'.ver
             /\ [rec' EXCEPT !.queued = rec.queued] = rec
       /\ (rec.kind = "list" /\ op'.kind = "recv" /\ op'.action = "READ"
           /\ rec.version = NoVersion) =>
             /\ rec'.queued = <<>>
             /\ ListGet(rec') = ArrayAfter(IF IsList(op'.doc) THEN op'.doc.entries ELSE <<>>,
                                           rec.queued)]_vars


\* ------------------------------------------------------------------- C21
\* C21: a set with a callback on a ready Record that changes the data, made
\* while the connection is CLOSED or RECONNECTING, invokes the callback at once
\* with the connection error and still writes: the version goes up by one, one
\* UPDATE or PATCH with that version is handed to the connection and the new
\* value is the record's data; in any other connection state the call invokes
\* no callback.
C21_ClosedConnectionCallback ==
    [][(/\ op'.kind = "set" /\ op'.cb # NoCb
        /\ rec.is_ready /\ ~rec.is_destroyed
        /\ JsonSet(rec.data, op'.path, op'.val, op'.doc) # rec.data)
       => IF conn \in {"CLOSED", "RECONNECTING"}
          THEN /\ Responses(out') = <<CbEv(op'.cb, "Connection error")>>
               /\ rec'.version = rec.version + 1
               /\ AllSends(out') =
                    <<SendEv(IF op'.path = NoPath THEN "UPDATE" ELSE "PATCH", rec.name,
                             rec.version + 1, op'.path,
                             IF op'.path = NoPath THEN NoVal ELSE Typed(op'.val),
                             op'.doc, WriteSuccess)>>
               /\ rec'.data = JsonSet(rec.data, op'.path, op'.val, op'.doc)
          ELSE Responses(out') = <<>>]_vars

\* The same for the values message_builder.typed serializes.
C21_SerializableValues ==
    [][(/\ op'.kind = "set" /\ op'.cb # NoCb
        /\ rec.is_ready /\ ~rec.is_destroyed
        /\ (op'.path # NoPath => Typed(op'.val) # "ValueError")
        /\ JsonSet(rec.data, op'.path, op'.val, op'.doc) # rec.data)
       => IF conn \in {"CLOSED", "RECONNECTING"}
          THEN /\ Responses(out') = <<CbEv(op'.cb, "Connection error")>>
               /\ rec'.version = rec.version + 1
               /\ AllSends(out') =
                    <<SendEv(IF op'.path = NoPath THEN "UPDATE" ELSE "PATCH", rec.name,
                             rec.version + 1, op'.path,
                             IF op'.path = NoPath THEN NoVal ELSE Typed(op'.val),
                             op'.doc, WriteSuccess)>>
               /\ rec'.data = JsonSet(rec.data, op'.path, op'.val, op'.doc)
          ELSE Responses(out') = <<>>]_vars


\* ------------------------------------------------------------------- C22
\* the future f was returned by a call on an entity that is ready by now
ReadyFuture(f) ==
    /\ f \in 1..Len(hdl.futures)
    /\ \A id \in 1..Len(hdl.ents) :
          \A i \in 1..Len(hdl.ents[id].on_ready) : hdl.ents[id].on_ready[i].future # f

\* C22: the completion handle a discard() or delete() call on a non-destroyed
\* Record returned is resolved once the record is ready and the connection has
\* completed the UNSUBSCRIBE or DELETE send: no handle of a ready record stays
\* unresolved for ever.
C22_HandlesAreResolved ==
    \A f \in 1..MaxCalls :
        ReadyFuture(f) ~> (f \in 1..Len(hdl.futures) /\ hdl.futures[f] = "done")

\* A handle is never resolved before its record was ready and the send made.
C22_ResolvedAfterSend ==
    [][\A f \in 1..Len(hdl.futures) :
          (hdl.futures[f] # "done" /\ hdl'.futures[f] = "done")
          => hdl.futures[f] = "sent" /\ ReadyFuture(f)]_vars


\* ------------------------------------------------------------------- C23
\* the record registered under `name` (if any) is ready
ResidentReady(h, name) == h.records[name] # NoEnt /\ h.ents[h.records[name]].r.is_ready

\* has / snapshot answered the call of the step at once and sent nothing
AnsweredLocally ==
    /\ AllSends(out') = <<>>
    /\ hdl'.has_registry = hdl.has_registry
    /\ hdl'.snapshot_registry = hdl.snapshot_registry
    /\ out' = <<IF op'.kind = "has" THEN ResponseEv(op'.cb, "", "True", EmptyDoc)
                ELSE ResponseEv(op'.cb, "", NoVal, GetOf(hdl.ents[hdl.records[op'.name]].r))>>

\* has / snapshot handed the call of the step to its SingleNotifier
Delegated ==
    LET has == op'.kind = "has"
        before == IF has THEN hdl.has_registry ELSE hdl.snapshot_registry
        after == IF has THEN hdl'.has_registry ELSE hdl'.snapshot_registry
    IN /\ Responses(out') = <<>>
       /\ after = [before EXCEPT !.timeouts = Append(@, [state |-> "armed", name |-> op'.name]),
                                 !.requests[op'.name] =
                                     Append(@, [timeout |-> Len(before.timeouts) + 1,
                                                callback |-> op'.cb])]
       /\ out' = IF before.requests[op'.name] # <<>> THEN <<>>
                 ELSE <<SendEv(IF has THEN "HAS" ELSE "SNAPSHOT", op'.name, NoVersion,
                               NoPath, NoVal, EmptyDoc, NoConfig)>>

C24_TimeoutClearsAllTimers ==
    [][(op'.kind = "timeout" /\ ~hdl.ents[op'.ent].r.is_destroyed) =>
          /\ out'[1] = EmitEv("error", TimeoutType(op'.action))
          /\ \A timer \in Timers : hdl'.ents[op'.ent].r[timer] # "armed"]_vars

\* The timers _clear_timeouts names are cancelled by a timeout that fires.
C24_NamedTimersCleared ==
    [][(op'.kind = "timeout" /\ ~hdl.ents[op'.ent].r.is_destroyed) =>
          /\ out'[1] = EmitEv("error", TimeoutType(op'.action))
          /\ \A timer \in Timers \ {"read_timeout"} :
                hdl'.ents[op'.ent].r[timer] # "armed"]_vars


\* ------------------------------------------------------------------- C25
\* C25: no value a Record hands out (the result of get, the argument of a
\* subscriber callback, with trigger_now too) is the object its data is bound
\* to: a caller that changes in place what it was handed changes neither what
\* get returns afterwards nor the record's version.
C25_HandedOutValuesAreCopies ==
    [][op'.kind = "mutate" =>
          /\ Get(rec', NoPath).out = Get(rec, NoPath).out
          /\ rec'.version = rec.version]_vars


\* ------------------------------------------------------------------- C26
\* what a READ received by a record that is not ready has to do
MadeReady ==
    /\ rec'.is_ready /\ rec'.read_timeout = "cancelled"
    /\ Len(SelectSeq(out', LAMBDA e : e = EmitEv("ready", ""))) = 1
    /\ rec'.queued = <<>>
    /\ rec.queued = <<>> => rec'.version = op'.ver /\ rec'.data = op'.doc

\* C26: the first READ a Record receives makes it ready, whatever it received
\* before (an UPDATE or PATCH, say): the READ cancels the read-response
\* timeout, stores its version and data, runs the queued calls and emits
\* 'ready' once; a record that is ready is never made ready again.
C26_FirstReadMakesReady ==
    [][/\ (op'.kind = "recv" /\ op'.action = "READ" /\ ~rec.is_ready /\ ~rec.is_destroyed)
             => MadeReady
       /\ rec.is_ready => ~Emitted(out', "ready")
       /\ (~rec.is_ready /\ rec'.is_ready) => op'.action = "READ"]_vars

\* The same for a READ received by a record that has stored no version yet.
C26_ReadBeforeAnyUpdate ==
    [][/\ (op'.kind = "recv" /\ op'.action = "READ" /\ rec.version = NoVersion
             /\ ~rec.is_destroyed) => MadeReady
       /\ rec.is_ready => ~Emitted(out', "ready")
       /\ (~rec.is_ready /\ rec'.is_ready) => op'.action = "READ"]_vars


\* ------------------------------------------------------------------- C27
\* the argument of a List.set is no list of strings
BadEntries(doc) ==
    ~IsList(doc) \/ \E i \in 1..Len(doc.entries) : ~IsString(doc.entries[i])

\* C27: List.get() returns an array in every state; a READ or UPDATE whose
\* payload is no JSON array, the first READ too, leaves the empty array as the
\* List's data; a set whose argument is no list or holds an entry that is no
\* string raises at once and changes nothing.
C27_ListDataIsAnArray ==
    [][/\ IsList(GetOf(rec')) /\ GetOf(rec').entries \in Seq(Entries)
       /\ (op'.kind = "recv" /\ op'.action \in {"READ", "UPDATE"} /\ ~IsList(op'.doc))
             => rec'.data = ListVal(<<>>)
       /\ (op'.kind = "set" /\ BadEntries(op'.doc))
             => out' = <<RaiseEv("ValueError")>> /\ rec' = rec]_vars

\* The same, for the payloads List._apply_update handles: every UPDATE, and
\* every READ but the first.
C27_ApplyUpdateCoerces ==
    [][/\ IsList(GetOf(rec')) /\ GetOf(rec').entries \in Seq(Entries)
       /\ (op'.kind = "recv" /\ op'.action \in {"READ", "UPDATE"} /\ ~IsList(op'.doc)
             /\ ~(op'.action = "READ" /\ rec.version = NoVersion))
             => rec'.data = ListVal(<<>>)
       /\ (op'.kind = "set" /\ BadEntries(op'.doc))
             => out' = <<RaiseEv("ValueError")>> /\ rec' = rec]_vars


\* ------------------------------------------------------------------- C28
\* The step is a conflict recovery that ends in an error: the strategy
\* resolved with an error, or the record has no strategy.
RecoveryFailed ==
    \/ op'.kind = "resolve" /\ op'.error
    \/ op'.kind = "recv" /\ IsRecovery(op') /\ rec.version # NoVersion
       /\ rec.merge_strategy = NoStrategy

\* C28: when conflict recovery runs and the merge strategy resolves with an
\* error, or no merge strategy is configured, the record emits a VERSION_EXISTS
\* error event, its version, data and write-callback ledger stay as they were
\* and no message is sent.
C28_FailedRecoveryChangesNothing ==
    [][RecoveryFailed =>
          /\ out' = <<EmitEv("error", "VERSION_EXISTS")>>
          /\ rec'.version = rec.version
          /\ rec'.data = rec.data
          /\ rec'.write_callbacks = rec.write_callbacks]_vars

\* C28 witness: a strategy resolved with an error the conflict of a record
\* that has a write callback pending and data other than the remote data.
C28_Witness ==
    /\ op.kind = "resolve" /\ op.error
    /\ out = <<EmitEv("error", "VERSION_EXISTS")>>
    /\ \E v \in DOMAIN rec.write_callbacks : rec.write_callbacks[v] # NoCb
    /\ rec.data # op.rdoc /\ rec.version # op.ver

\* C28 witness of the other case: a record with no strategy and a pending write
\* callback received a VERSION_EXISTS error.
C28_NoStrategyWitness ==
    /\ op.kind = "recv" /\ op.action = "VERSION_EXISTS"
    /\ rec.merge_strategy = NoStrategy
    /\ out = <<EmitEv("error", "VERSION_EXISTS")>>
    /\ \E v \in DOMAIN rec.write_callbacks : rec.write_callbacks[v] # NoCb


\* ------------------------------------------------------------------- C29
\* The step is a strategy's resolution with data other than the remote data.
ResolvedWithMerge == op'.kind = "resolve" /\ ~op'.error /\ op'.doc # op'.rdoc

\* The callback of the superseded local write: set files it under the version
\* the write produced, which is the local version until the conflict is resolved.
PendingCallback == GetCallback(rec, rec.version)

\* C29: when conflict recovery resolves with data other than the remote data
\* while a write callback is pending for the superseded local write, the merged
\* value is re-sent as one UPDATE and the callback moves in the ledger from the
\* superseded version's key to the key of the version the re-sent UPDATE
\* carries; the recovery never fails on a missing ledger key.
C29_PendingCallbackMoves ==
    [][ResolvedWithMerge =>
          /\ \A i \in 1..Len(out') : out'[i] # RaiseEv("KeyError")
          /\ PendingCallback # NoCb =>
                /\ \E c \in {NoConfig, WriteSuccess} :
                      AllSends(out') = <<SendEv("UPDATE", rec.name, op'.ver + 1, NoPath,
                                                NoVal, op'.doc, c)>>
                /\ GetCallback(rec', op'.ver + 1) = PendingCallback
                /\ (rec.version # op'.ver + 1) => GetCallback(rec', rec.version) = NoCb]_vars

\* The part of C29 the code keeps: when the conflict message carries the
\* writeSuccess configuration and the callback sits under the local version,
\* the callback moves to the re-sent version and one UPDATE is sent.
C29_MovesWhenConfigured ==
    [][(ResolvedWithMerge /\ op'.cfg = WriteSuccess /\ PendingCallback # NoCb) =>
          /\ AllSends(out') = <<SendEv("UPDATE", rec.name, op'.ver + 1, NoPath,
                                       NoVal, op'.doc, WriteSuccess)>>
          /\ GetCallback(rec', op'.ver + 1) = PendingCallback
          /\ (rec.version # op'.ver + 1) => GetCallback(rec', rec.version) = NoCb]_vars

\* A merge was resolved for a conflict message with the writeSuccess
\* configuration while the only pending callback sat under an earlier version:
\* the recovery raised KeyError.
C29_MissingKeyReached ==
    /\ op.kind = "resolve" /\ ~op.error /\ op.doc # op.rdoc /\ op.cfg = WriteSuccess
    /\ op.pv = 2 /\ GetCallback(rec, 1) # NoCb /\ GetCallback(rec, 2) = NoCb
    /\ out = <<RaiseEv("KeyError")>>

\* ------------------------------------------------------------------- C30
\* The step is a conflict recovery of a ready record that resolved with the
\* remote data: remote_wins on a conflicting message, or a strategy's
\* resolution with the remote data.
ResolvedWithRemoteData ==
    /\ rec.is_ready
    /\ \/ op'.kind = "resolve" /\ ~op'.error /\ op'.doc = op'.rdoc
       \/ op'.kind = "recv" /\ IsRecovery(op') /\ rec.merge_strategy = RemoteWins

\* C30: when conflict recovery resolves with data equal to the remote data, the
\* data is applied directly without sending an UPDATE, and a write callback
\* stored for the local expected version (the version the superseded local
\* write was expected to produce) is invoked once with no error and removed
\* from the ledger.
C30_EqualResolutionInvokesCallback ==
    [][ResolvedWithRemoteData =>
          /\ rec'.data = op'.doc
          /\ Sends(out', "UPDATE") = <<>>
          /\ PendingCallback # NoCb =>
                /\ Responses(out') = <<CbEv(PendingCallback, "")>>
                /\ GetCallback(rec', rec.version) = NoCb]_vars

\* The part of C30 the code keeps: the remote data is applied and no UPDATE is
\* sent.
C30_AppliedWithoutUpdate ==
    [][ResolvedWithRemoteData =>
          /\ rec'.data = op'.doc
          /\ Sends(out', "UPDATE") = <<>>]_vars

\* A VERSION_EXISTS error for the local version was resolved with the remote
\* data: the callback was invoked, the removal raised KeyError and the
\* callback is still in the ledger.
C30_CallbackLeftReached ==
    /\ op.kind = "recv" /\ op.action = "VERSION_EXISTS" /\ op.ver = op.pv
    /\ rec.merge_strategy = RemoteWins
    /\ out # <<>> /\ out[Len(out)] = RaiseEv("KeyError")
    /\ Responses(out) = <<CbEv(GetCallback(rec, op.pv), "")>>
    /\ GetCallback(rec, op.pv) # NoCb


\* ------------------------------------------------------------------- C31
\* Entity id of handler h has emitted destroyPending for a delete (ack
\* "DELETE") or a final discard (ack "UNSUBSCRIBE") and is not yet destroyed.
DestroyPending(h, id, ack) ==
    /\ ~h.ents[id].r.is_destroyed
    /\ IF ack = "DELETE" THEN h.ents[id].r.delete_ack_timeout = "armed"
       ELSE h.ents[id].r.discard_timeout = "armed"
AwaitingAck(h, name, ack) ==
    {id \in 1..Len(h.ents) : h.ents[id].r.name = name /\ DestroyPending(h, id, ack)}
TerminalEvents(o) ==
    SelectSeq(o, LAMBDA e : e = EmitEv("delete", "") \/ e = EmitEv("discard", ""))

\* C31: after a ready record's delete() or final discard() emitted
\* destroyPending, the handler routes no ordinary message of the name to it
\* (it is not in the records registry), and the DELETE or UNSUBSCRIBE ACK that
\* follows is delivered to the detached record exactly once: it emits its
\* terminal event once, is destroyed and is in neither registry.
C31_TeardownCoordination ==
    [][/\ \A id \in 1..Len(hdl'.ents), ack \in {"DELETE", "UNSUBSCRIBE"} :
             DestroyPending(hdl', id, ack) => hdl'.records[hdl'.ents[id].r.name] # id
       /\ (op'.kind = "handle" /\ op'.action = "ACK" /\ op'.ack \in {"DELETE", "UNSUBSCRIBE"}) =>
             /\ Len(TerminalEvents(out')) = Cardinality(AwaitingAck(hdl, op'.name, op'.ack))
             /\ \A id \in AwaitingAck(hdl, op'.name, op'.ack) :
                   /\ hdl'.ents[id].r.is_destroyed
                   /\ hdl'.records[op'.name] # id
                   /\ hdl'.lists[op'.name] # id]_vars

\* A List whose delete is pending is registered for routing again.
C31_PendingListRouted ==
    \E id \in 1..Len(hdl.ents) :
        /\ DestroyPending(hdl, id, "DELETE") /\ hdl.ents[id].r.kind = "list"
        /\ hdl.records[hdl.ents[id].r.name] = id
        /\ op.kind = "get_list"


\* ------------------------------------------------------------------- C32
\* C32: after a Record is destroyed (by a DELETE or UNSUBSCRIBE ack, ready or
\* not) it produces no further output: none of its timers acts later, a
\* reconnect cycle does not re-send its read, and no subscriber callback is
\* invoked.
C32_DestroyedIsSilent ==
    [][rec.is_destroyed =>
          /\ op'.kind \in {"timeout", "state"} => out' = <<>>
          /\ \A i \in 1..Len(out') : out'[i].t # "fire"]_vars

\* The part of C32 the code keeps: a destroyed record emits no timeout error,
\* sends nothing and invokes no subscriber callback.
C32_NoEmissionAfterDestroy ==
    [][rec.is_destroyed =>
          /\ op'.kind \in {"timeout", "state"} =>
                \A i \in 1..Len(out') : out'[i].t \notin {"emit", "send"}
          /\ \A i \in 1..Len(out') : out'[i].t # "fire"]_vars

\* The read-response timer of a record destroyed before its READ fired.
C32_TimerFiredAfterDestroy ==
    /\ rec.is_destroyed /\ rec.read_timeout = "fired"
    /\ op.kind = "timeout" /\ op.action = "read_timeout"
    /\ out = <<RaiseEv("AttributeError")>>

\* A reconnect cycle completed on a destroyed record that had a subscriber.
C32_ReconnectAfterDestroy ==
    /\ rec.is_destroyed /\ op.kind = "state" /\ op.action = "OPEN" /\ out = <<>>


C33_RepeatedOpenWitness ==
    /\ op.kind = "state" /\ op.action = "OPEN" /\ op.pv # NoVersion
    /\ ~rec.is_destroyed /\ out = <<>> /\ rec.version > 0
C33_DestroyedWitness ==
    /\ op.kind = "state" /\ op.action = "OPEN" /\ rec.is_destroyed /\ out = <<>>

\* ------------------------------------------------------------------- C34
\* the SingleNotifier a has / snapshot call or a HAS / READ answer goes to
NotifierOf(h, o) ==
    IF o.kind = "has" \/ o.action = "HAS" THEN h.has_registry ELSE h.snapshot_registry

\* C34: SingleNotifier.receive(name, error, data) invokes every callback
\* attached to name exactly once, in the order the requests were registered,
\* with (error, data), cancels each attached response timeout so that none of
\* them fires afterwards (a response timer that fires belongs to a request
\* still pending), and removes the entry, so that has_request(name) is false
\* and the next request for name sends a new message.
C34_ReceiveAnswersAllOnce ==
    [][LET before == NotifierOf(hdl, op')
           after == NotifierOf(hdl', op')
           pending == before.requests[op'.name]
       IN /\ (op'.kind = "handle" /\ op'.action \in {"HAS", "READ"}) =>
                /\ Responses(out') =
                      [i \in 1..Len(pending) |->
                          IF op'.action = "HAS"
                          THEN ResponseEv(pending[i].callback, "", ConvertTyped(op'.val), EmptyDoc)
                          ELSE ResponseEv(pending[i].callback, "", NoVal, op'.doc)]
                /\ \A i, j \in 1..Len(pending) :
                      pending[i].callback = pending[j].callback => i = j
                /\ \A i \in 1..Len(pending) : after.timeouts[pending[i].timeout].state # "armed"
                /\ after.requests[op'.name] = <<>>
          /\ op'.kind = "response_timeout" =>
                \E i \in 1..Len(pending) : pending[i].timeout = op'.ent
          /\ (op'.kind \in {"has", "snapshot"} /\ pending = <<>>) =>
                AllSends(out') = <<SendEv(IF op'.kind = "has" THEN "HAS" ELSE "SNAPSHOT",
                                          op'.name, NoVersion, NoPath, NoVal, EmptyDoc,
                                          NoConfig)>>]_vars

\* C34 witness: one answer invoked the callbacks of two requests, of which one
\* timer had fired before and the other was cancelled by the answer, and the
\* next request for the name was sent anew.
C34_Witness ==
    /\ op.kind = "has" /\ Len(AllSends(out)) = 1
    /\ Len(hdl.has_registry.timeouts) = 3
    /\ hdl.has_registry.timeouts[1].state = "fired"
    /\ hdl.has_registry.timeouts[2].state = "cancelled"
    /\ \A t \in 1..3 : hdl.has_registry.timeouts[t].name = op.name

\* ------------------------------------------------------------------- C35
\* the step completes a reconnect cycle: OPEN is reported after a RECONNECTING
\* that no OPEN has followed yet
CycleCompletes == op'.kind = "state" /\ op'.action = "OPEN" /\ cycle
PendingNames(sn) == {n \in Names : sn.requests[n] # <<>>}

\* C35: on each reconnect cycle (RECONNECTING, then OPEN) a SingleNotifier
\* re-sends, for every name that still has a pending request, exactly one
\* message of its topic and action whose payload is that name, and sends
\* nothing for a name whose request was answered.
C35_PendingNamesResent ==
    [][CycleCompletes =>
          \A n \in Names :
              /\ Count(out', "HAS", n) = IF n \in PendingNames(hdl.has_registry) THEN 1 ELSE 0
              /\ Count(out', "SNAPSHOT", n) =
                    IF n \in PendingNames(hdl.snapshot_registry) THEN 1 ELSE 0]_vars

\* The part of C35 the code keeps: one message of the notifier's action per
\* name with a pending request, none for the other names, and none on a
\* report that completes no cycle.
C35_OneMessagePerPendingName ==
    [][op'.kind = "state" =>
          /\ Len(Sends(out', "HAS")) =
                IF CycleCompletes THEN Cardinality(PendingNames(hdl.has_registry)) ELSE 0
          /\ Len(Sends(out', "SNAPSHOT")) =
                IF CycleCompletes THEN Cardinality(PendingNames(hdl.snapshot_registry)) ELSE 0
          /\ Len(AllSends(out')) = Len(out')]_vars

\* A cycle completed while has requests for both names were pending and one
\* snapshot request had been answered.
C35_ResentReached ==
    /\ op.kind = "state" /\ op.action = "OPEN"
    /\ Len(Sends(out, "HAS")) = 2 /\ Sends(out, "SNAPSHOT") = <<>>
    /\ Len(hdl.snapshot_registry.timeouts) = 1

\* ------------------------------------------------------------------- C36
\* the step handles an ERROR message for action `ack`
IsRequestError(o, ack) == o.kind = "handle" /\ o.action = "ERROR" /\ o.ack = ack
\* the waiters `pending` were all invoked with the error of the step, and
\* nothing else happened
ResolvedWithError(pending) ==
    out' = [i \in 1..Len(pending) |-> ResponseEv(pending[i].callback, op'.val, NoVal, EmptyDoc)]

\* C36: an inbound ERROR for action SNAPSHOT resolves the pending snapshot
\* request of that name with the error, and an inbound ERROR for action HAS
\* the pending has request: every waiter of the name in the corresponding
\* notifier is invoked with the error, the other notifier is untouched and
\* the handler does not fail.
C36_ErrorResolvesItsRequest ==
    [][/\ IsRequestError(op', "SNAPSHOT") =>
             /\ ResolvedWithError(hdl.snapshot_registry.requests[op'.name])
             /\ hdl'.snapshot_registry.requests[op'.name] = <<>>
             /\ hdl'.has_registry = hdl.has_registry
       /\ IsRequestError(op', "HAS") =>
             /\ ResolvedWithError(hdl.has_registry.requests[op'.name])
             /\ hdl'.has_registry.requests[op'.name] = <<>>
             /\ hdl'.snapshot_registry = hdl.snapshot_registry]_vars

\* The part of C36 the code keeps: the claim for ERROR messages of SNAPSHOT.
C36_SnapshotErrorResolves ==
    [][IsRequestError(op', "SNAPSHOT") =>
          /\ ResolvedWithError(hdl.snapshot_registry.requests[op'.name])
          /\ hdl'.snapshot_registry.requests[op'.name] = <<>>
          /\ hdl'.has_registry = hdl.has_registry]_vars

\* An ERROR for HAS invoked the waiter of a snapshot request and left the has
\* request pending.
C36_WrongNotifierReached ==
    /\ IsRequestError(op, "HAS")
    /\ Len(Responses(out)) = 1
    /\ hdl.has_registry.requests[op.name] # <<>>
    /\ \A i \in 1..Len(hdl.has_registry.requests[op.name]) :
          hdl.has_registry.requests[op.name][i].callback # Responses(out)[1].ver

\* ------------------------------------------------------------------- C37
\* the step is a clear or a remove
ClearsDeadline(o) == o.kind \in {"ack_clear", "ack_remove"}
Reported(o, event) == \E i \in 1..Len(o) : o[i].t = "client_error" /\ o[i].act = event
TimeoutEmitted(o) == \E i \in 1..Len(o) : o[i].t = "emit" /\ o[i].act = "timeout"

\* C37: a deadline registered with add(name, action) and cleared by the
\* matching ACK (clear) or by remove before it elapses never emits a 'timeout'
\* event or an ACK_TIMEOUT error, and clearing it reports no
\* UNSOLICITED_MESSAGE; UNSOLICITED_MESSAGE is reported only when clear is
\* called for a key with no registered deadline; a deadline that is never
\* cleared emits exactly one 'timeout' event and one ACK_TIMEOUT error.
C37_ClearedDeadlineIsSilent ==
    [][/\ (ClearsDeadline(op') /\ Running(acks.reg, UniqueName(op'.action, op'.name)) # {}) =>
             /\ ~Reported(out', "UNSOLICITED_MESSAGE")
             /\ Running(acks'.reg, UniqueName(op'.action, op'.name)) = {}
       /\ Reported(out', "UNSOLICITED_MESSAGE") =>
             /\ op'.kind = "ack_clear"
             /\ acks.reg.register[UniqueName(op'.action, op'.name)] = NotRegistered
       /\ op'.kind = "ack_timeout" =>
             /\ op'.ent \notin acks.cleared
             /\ out' = <<ClientErrorEv("ACK_TIMEOUT",
                                       "No ACK message received in time for " \o op'.name),
                         EmitEv("timeout", op'.name)>>
             /\ acks'.reg.timers[op'.ent].state = "fired"]_vars

\* deadline t is the first add() registered for its key
FirstOfKey(reg, t) ==
    \A u \in 1..(t - 1) : reg.timers[u].unique_name # reg.timers[t].unique_name

\* The part of C37 the code keeps: the first deadline of a key, when no clear,
\* remove or later add was for it, emits one ACK_TIMEOUT error and one
\* 'timeout' event when it elapses, and elapses once; a clear for a key that
\* is not registered reports UNSOLICITED_MESSAGE.
C37_UnclearedFiresOnce ==
    [][/\ (op'.kind = "ack_timeout" /\ op'.ent \notin acks.cleared
             /\ FirstOfKey(acks.reg, op'.ent)) =>
             /\ out' = <<ClientErrorEv("ACK_TIMEOUT",
                                       "No ACK message received in time for " \o op'.name),
                         EmitEv("timeout", op'.name)>>
             /\ acks'.reg.timers[op'.ent].state = "fired"
       /\ (op'.kind = "ack_clear"
             /\ acks.reg.register[UniqueName(op'.action, op'.name)] = NotRegistered
             /\ acks.reg.register[op'.name] = NotRegistered) =>
             Reported(out', "UNSOLICITED_MESSAGE")]_vars

\* A deadline whose ACK was cleared in time elapsed all the same and emitted
\* the 'timeout' event.
C37_ClearedDeadlineFired ==
    /\ op.kind = "ack_timeout"
    /\ op.ent \in acks.cleared
    /\ TimeoutEmitted(out)
    /\ Reported(out, "ACK_TIMEOUT")

\* ------------------------------------------------------------------- C38
\* C38: in every reachable state of a RecordHandler, each name present in the
\* lists registry is also present in the records registry and maps to the
\* same List there, so that every inbound message for the name is routed to
\* the List that get_list returns; also when a Record of the same name was
\* created first, and between destroyPending and the terminal ack.
C38_ListsAreRouted ==
    \A n \in Names : hdl.lists[n] # NoEnt => hdl.records[n] = hdl.lists[n]

\* The part of C38 the code keeps: a List in the records registry is the List
\* of that name in the lists registry.
C38_RoutedListIsRegistered ==
    \A n \in Names :
        (hdl.records[n] # NoEnt /\ hdl.ents[hdl.records[n]].r.kind = "list") =>
            hdl.lists[n] = hdl.records[n]

\* get_list returned a List while the messages of its name go to a Record
\* created before it.
C38_ShadowedListReached ==
    \E n \in Names :
        /\ op.kind = "get_list" /\ op.name = n
        /\ hdl.lists[n] # NoEnt /\ hdl.records[n] # NoEnt
        /\ hdl.records[n] # hdl.lists[n]
        /\ hdl.ents[hdl.records[n]].r.kind = "record"

\* A List whose destruction is pending, or done, is still in the lists
\* registry and no longer in the records registry.
C38_UnroutedListReached ==
    \E n \in Names : hdl.lists[n] # NoEnt /\ hdl.records[n] = NoEnt
====
